---- MODULE Spec2Model ----
(***************************************************************************)
(* Model of the r2r-backend routing proxy: the POST /api/route handler     *)
(* (routers/routes.py), the routing orchestration service (services.py)    *)
(* and the pure response-reshaping functions it is built from; and of the  *)
(* command-line tools of scripts/ working on the tables of db/models.py.   *)
(*                                                                         *)
(* Conventions.  Python lists are sequences (1-based here, 0-based in the  *)
(* source: index i of the source is position i+1).  An Optional value is   *)
(* None (the empty tuple) or Some(x) (the one-element tuple).  A text is a *)
(* sequence of string pieces (an f-string is the sequence of its parts).   *)
(***************************************************************************)
EXTENDS Integers, Sequences, FiniteSets, TLC

VARIABLES
    \* ---- one POST /api/route request (routers/routes.py, services.py) ----
    pc,             \* position of the request: idle, queued, posted, done
    request,        \* the RouteRequest being handled
    builder,        \* what generate_profile yields for this request
    builderCalled,  \* whether get_custom_model was invoked
    args,           \* the arguments get_route hands to get_route_async
    payload,        \* the JSON payload POSTed to the engine (None before)
    posts,          \* number of POSTs issued to the engine
    reply,          \* the engine's reply (None before it arrives)
    httpStatus,     \* status of the HTTP answer (0 before it is sent)
    httpDetail,     \* detail text of an HTTPException answer
    response,       \* the RouteResponse returned (None before)
    \* ---- the pure functions of services.py, applied to drawn inputs ----
    fpc,                    \* input, distances, merged
    coordinates,            \* list of [lon, lat] coordinates
    details_data,           \* detail name -> list of [start, end, value]
    coordinate_distances,   \* result of calculate_cumulative_distances
    segments,               \* result of merge_detail_segments
    \* ---- the database (db/models.py) and the command-line tools (scripts/) ----
    graphhopper_custom_profiles,    \* committed GraphHopperCustomProfile rows
    profile_priors,                 \* committed ProfilePrior rows
    user_profiles,                  \* committed UserProfile rows
    learned_parameters,             \* committed LearnedParameters rows
    id_seq,                         \* table -> last value of its id sequence
    schema,                         \* alembic revision and the columns of profile_priors
    proc,                           \* invocation -> state of that tool invocation
    returned,                       \* value returned by a function applied on its own
    \* ---- the thread pool of services.py under concurrent requests ----
    submitted,      \* number of requests handed to the pool so far
    work_queue,     \* requests waiting in the pool's queue, oldest first
    running,        \* requests whose execute_route_request call is running
    responded,      \* request -> number of responses it has received
    waited          \* requests that were submitted while no worker was free

routeVars == <<pc, request, builder, builderCalled, args, payload, posts, reply, httpStatus, httpDetail, response>>
fnVars == <<fpc, coordinates, details_data, coordinate_distances, segments>>
tables == <<graphhopper_custom_profiles, profile_priors, user_profiles, learned_parameters, id_seq, schema>>
dbVars == <<tables, proc, returned>>
poolVars == <<submitted, work_queue, running, responded, waited>>
vars == <<routeVars, fnVars, dbVars, poolVars>>

\* ------------------------------------------------------------------ bounds
\* Longest coordinate list drawn for calculate_cumulative_distances.
MaxCoords == 3
\* Longest route (coordinate count) drawn for merge_detail_segments.
MaxRoute == 3
\* Most detail triples (over all detail names) drawn for merge_detail_segments.
MaxTriples == 2
\* Most coordinates in a path of an engine reply.
MaxPathCoords == 2
\* The most triples of the one detail list drawn with every kind of value.
MaxValueTriples == 2
\* The most coordinates and triples of a route covered by contiguous triples.
MaxContiguousRoute == 5
MaxContiguousTriples == 3
\* The most concurrent invocations of add_custom_profile.py.
MaxRegistrations == 2
\* the most --prior_id arguments of one transfer invocation
MaxPriorIds == 2
\* the most rows of profile_priors when the migration runs
MaxPriorRows == 2
\* the most route requests in flight at the same time
MaxRequests == 11

\* ------------------------------------------------------------- conventions
None == <<>>
Some(x) == <<x>>
Max(a, b) == IF a >= b THEN a ELSE b
Min(a, b) == IF a <= b THEN a ELSE b
\* JSON null / Python None as a detail or message value (distinct from "null").
JsonNull == "<None>"

\* ------------------------------------------------------- haversine_distance
\* Degrees are multiples of 90, where the trigonometric functions are exact.
Lats == {0, 90}
Lons == {0, 90, 180}
EarthRadius == 6371000
\* math.cos of an angle in degrees (multiples of 90).
Cos(deg) ==
    CASE deg % 360 = 0 -> 1
      [] deg % 360 = 180 -> -1
      [] OTHER -> 0
\* 2 * math.sin(delta / 2) ** 2  (= 1 - cos delta).
TwoSinSqHalf(deg) == 1 - Cos(deg)
\* c = 2 * atan2(sqrt(a), sqrt(1 - a)) in quarter turns (pi/2), given 2a:
\* a = 0 -> 0, a = 1/2 -> pi/2, a = 1 -> pi.
CentralAngleQuarters(twoA) ==
    CASE twoA = 0 -> 0
      [] twoA = 1 -> 1
      [] OTHER -> 2
\* R * c in metres, with pi taken as 22/7.
haversine_distance(lat1, lon1, lat2, lon2) ==
    LET twoA == TwoSinSqHalf(lat2 - lat1) + Cos(lat1) * Cos(lat2) * TwoSinSqHalf(lon2 - lon1)
    IN  (((EarthRadius \div 2) * 22) \div 7) * CentralAngleQuarters(twoA)

\* -------------------------------------------- calculate_cumulative_distances
RECURSIVE CumulativeFrom(_, _, _)
CumulativeFrom(cs, i, distances) ==
    IF i > Len(cs) THEN distances
    ELSE LET dist == haversine_distance(cs[i - 1][2], cs[i - 1][1], cs[i][2], cs[i][1])
         IN  CumulativeFrom(cs, i + 1, Append(distances, distances[Len(distances)] + dist))

RECURSIVE PairwiseFrom(_, _, _)
PairwiseFrom(cs, i, distances) ==
    IF i > Len(cs) THEN distances
    ELSE LET dist == haversine_distance(cs[i - 1][2], cs[i - 1][1], cs[i][2], cs[i][1])
         IN  PairwiseFrom(cs, i + 1, Append(distances, dist))

\* A faulty variant: appends each leg's own length instead of the running total.
calculate_cumulative_distances_no_running_total(cs) == PairwiseFrom(cs, 2, <<0>>)

\* distances = [0.0]; for i in range(1, len(coordinates)): append(distances[-1] + dist)
calculate_cumulative_distances(cs) == CumulativeFrom(cs, 2, <<0>>)

\* ------------------------------- create_elevation_profile_from_coordinates
create_elevation_profile_from_coordinates(cs, cd) ==
    IF Len(cs) < 2 THEN <<>>
    ELSE [i \in 1..Len(cs) |->
            [distance |-> cd[i],
             elevation |-> IF Len(cs[i]) > 2 THEN cs[i][3] ELSE 0,
             coordinate_index |-> i - 1]]

\* --------------------------------------------------- merge_detail_segments
\* max(0, min(a, n_coords - 1))
Clamp(a, n_coords) == Max(0, Min(a, n_coords - 1))

\* The triples of every detail list.
AllTriples(dd) == UNION {{dd[d][k] : k \in 1..Len(dd[d])} : d \in DOMAIN dd}

\* A faulty variant: the cut points without the first and last usable index.
CutsOfTriplesOnly(n_coords, dd) ==
    {Clamp(t[1], n_coords) : t \in AllTriples(dd)}
        \cup {Clamp(t[2], n_coords) : t \in AllTriples(dd)}

\* A faulty variant: the end bounds of the triples are left out of the cuts.
CutsOfStartsOnly(n_coords, dd) ==
    {0, n_coords - 1} \cup {Clamp(t[1], n_coords) : t \in AllTriples(dd)}

\* cuts = {0, n_coords - 1} plus both clamped bounds of every triple.
Cuts(n_coords, dd) ==
    {0, n_coords - 1}
        \cup {Clamp(t[1], n_coords) : t \in AllTriples(dd)}
        \cup {Clamp(t[2], n_coords) : t \in AllTriples(dd)}

\* sorted(cuts)
RECURSIVE Sorted(_)
Sorted(S) ==
    IF S = {} THEN <<>>
    ELSE LET m == CHOOSE x \in S : \A y \in S : x <= y
         IN  <<m>> \o Sorted(S \ {m})

\* The consecutive pairs (s, e) of the sorted cuts with s < e.
RawSegments(sorted_cuts) ==
    LET pairs == [i \in 1..(Len(sorted_cuts) - 1) |-> <<sorted_cuts[i], sorted_cuts[i + 1]>>]
        keep(p) == p[1] < p[2]
    IN  SelectSeq(pairs, keep)

\* A faulty variant: the first covering triple's value, taken as it is.
RECURSIVE ValueFromAsIs(_, _, _, _, _)
ValueFromAsIs(detail_list, k, s, e, n_coords) ==
    IF k > Len(detail_list) THEN "unknown"
    ELSE IF s >= Clamp(detail_list[k][1], n_coords) /\ e <= Clamp(detail_list[k][2], n_coords)
         THEN detail_list[k][3]
         ELSE ValueFromAsIs(detail_list, k + 1, s, e, n_coords)

\* The value of the first triple whose clamped [a, b) covers [s, e), normalised.
RECURSIVE ValueFrom(_, _, _, _, _)
ValueFrom(detail_list, k, s, e, n_coords) ==
    IF k > Len(detail_list) THEN "unknown"
    ELSE LET a == Clamp(detail_list[k][1], n_coords)
             b == Clamp(detail_list[k][2], n_coords)
             v == detail_list[k][3]
         IN  IF s >= a /\ e <= b
             THEN (IF v \in {JsonNull, "", "missing", "null", "undefined"} THEN "unknown" ELSE v)
             ELSE ValueFrom(detail_list, k + 1, s, e, n_coords)

value_for_segment(detail_list, s, e, n_coords) == ValueFrom(detail_list, 1, s, e, n_coords)

\* A triple that "for a, b, _ in detail_list" cannot unpack (ValueError).
MalformedTriple(t) == Len(t) # 3

\* Whether merge_detail_segments raises: it unpacks every triple of every list
\* while collecting the cuts, unless it returned [] for n_coords < 2 before.
merge_detail_segments_raises(cs, dd) ==
    Len(cs) >= 2 /\ \E t \in AllTriples(dd) : MalformedTriple(t)

\* A faulty variant: the end distance read one coordinate early, as if the
\* end index were inclusive.
merge_detail_segments_inclusive_end(cs, dd, cd) ==
    LET n_coords == Len(cs)
        sorted_cuts == Sorted(Cuts(n_coords, dd))
        raw_segments == RawSegments(sorted_cuts)
    IN  IF n_coords < 2 THEN <<>>
        ELSE [i \in 1..Len(raw_segments) |->
                LET s == raw_segments[i][1]
                    e == raw_segments[i][2]
                IN  [start_index |-> s,
                     end_index |-> e,
                     start_distance |-> cd[s + 1],
                     end_distance |-> cd[e],
                     attributes |-> [d \in DOMAIN dd |-> value_for_segment(dd[d], s, e, n_coords)]]]

merge_detail_segments(cs, dd, cd) ==
    LET n_coords == Len(cs)
        sorted_cuts == Sorted(Cuts(n_coords, dd))
        raw_segments == RawSegments(sorted_cuts)
    IN  IF n_coords < 2 THEN <<>>
        ELSE IF Len(sorted_cuts) < 2 THEN <<>>
        ELSE [i \in 1..Len(raw_segments) |->
                LET s == raw_segments[i][1]
                    e == raw_segments[i][2]
                IN  [start_index |-> s,
                     end_index |-> e,
                     start_distance |-> cd[s + 1],
                     end_distance |-> cd[e + 1],
                     attributes |-> [d \in DOMAIN dd |-> value_for_segment(dd[d], s, e, n_coords)]]]

\* ============================================== POST /api/route (one request)
\* config.default_profile of the GraphHopperConfig dependency.
DefaultProfile == "bike"
\* request.details or ['surface', 'smoothness']
DefaultDetails == <<"surface", "smoothness">>

\* Python truthiness of an Optional[int], an Optional dict/list/str.
IntTruthy(o) == o # None /\ o[1] # 0
SizedTruthy(o, empty) == o # None /\ o[1] # empty

RoutePoints == {[lat |-> 48, lon |-> 11], [lat |-> 47, lon |-> 13]}
\* Dicts whose content is only passed on are sets of <<key, value>> pairs.
ParameterMaps == {{}, {<<"surface_weight", 2>>}}
RouteRequests ==
    [start : RoutePoints,
     end : RoutePoints,
     profile : {None, Some("gravel")},
     custom_profile_id : {None, Some(0), Some(7)},
     parameters : {None} \cup {Some(m) : m \in ParameterMaps},
     include_elevation : BOOLEAN,
     details : {None, Some(<<"surface">>)}]

\* generate_profile (external): returns a custom-model document or raises.
CustomModelDocument == {<<"priority", "if surface == GRAVEL multiply_by 0.5">>}
BuilderOutcomes ==
    {[kind |-> "document", document |-> CustomModelDocument, message |-> ""],
     [kind |-> "raise", document |-> {}, message |-> "Custom profile 7 not found"]}

\* A faulty variant: a builder failure is swallowed and the route computed
\* without a custom model.
CustomModelStepSwallowing(req, b) ==
    [called |-> IntTruthy(req.custom_profile_id) /\ SizedTruthy(req.parameters, {}),
     raised |-> FALSE,
     custom_model |-> IF IntTruthy(req.custom_profile_id) /\ SizedTruthy(req.parameters, {})
                         /\ b.kind = "document"
                      THEN Some(b.document) ELSE None,
     detail |-> None]

\* get_route, "Generate custom model if needed": the builder is invoked when
\* request.custom_profile_id and request.parameters are both truthy; its
\* exception becomes HTTPException(400, "Custom profile error: <message>").
CustomModelStep(req, b) ==
    IF IntTruthy(req.custom_profile_id) /\ SizedTruthy(req.parameters, {})
    THEN IF b.kind = "raise"
         THEN [called |-> TRUE, raised |-> TRUE, custom_model |-> None,
               detail |-> Some(<<"Custom profile error: ", b.message>>)]
         ELSE [called |-> TRUE, raised |-> FALSE, custom_model |-> Some(b.document),
               detail |-> None]
    ELSE [called |-> FALSE, raised |-> FALSE, custom_model |-> None, detail |-> None]

\* The arguments of get_route_async(start, end, profile, custom_model, config,
\* include_elevation, details); start and end are (lat, lon) tuples.
RouteArgs(req, custom_model) ==
    [start |-> <<req.start.lat, req.start.lon>>,
     end |-> <<req.end.lat, req.end.lon>>,
     profile |-> IF SizedTruthy(req.profile, "") THEN req.profile[1] ELSE DefaultProfile,
     custom_model |-> custom_model,
     include_elevation |-> req.include_elevation,
     details |-> IF SizedTruthy(req.details, <<>>) THEN req.details ELSE Some(DefaultDetails)]

\* The handler up to its await of get_route_async (or its HTTP 400 answer).
get_route ==
    /\ pc = "idle"
    /\ \E req \in RouteRequests, b \in BuilderOutcomes :
          LET step == CustomModelStep(req, b)
          IN  /\ request' = req
              /\ builder' = b
              /\ builderCalled' = step.called
              /\ IF step.raised
                 THEN /\ pc' = "done"
                      /\ httpStatus' = 400
                      /\ httpDetail' = step.detail
                      /\ args' = None
                 ELSE /\ pc' = "queued"
                      /\ httpStatus' = 0
                      /\ httpDetail' = None
                      /\ args' = RouteArgs(req, step.custom_model)
    /\ UNCHANGED <<payload, posts, reply, response>>
    /\ UNCHANGED <<fnVars, dbVars, poolVars>>

\* execute_route_request: the payload built for the engine.
RoutePayload(a) ==
    [points |-> << <<a.start[2], a.start[1]>>, <<a.end[2], a.end[1]>> >>,
     profile |-> a.profile,
     points_encoded |-> FALSE,
     elevation |-> a.include_elevation,
     instructions |-> FALSE,
     calc_points |-> TRUE,
     details |-> IF SizedTruthy(a.details, <<>>) THEN a.details ELSE None,
     ch_disable |-> IF SizedTruthy(a.custom_model, {}) THEN Some(TRUE) ELSE None,
     custom_model |-> IF SizedTruthy(a.custom_model, {}) THEN a.custom_model ELSE None]

\* execute_route_request up to requests.post: one POST is issued.
execute_route_request_post ==
    /\ pc = "queued"
    /\ payload' = RoutePayload(args)
    /\ posts' = posts + 1
    /\ pc' = "posted"
    /\ UNCHANGED <<request, builder, builderCalled, args, reply, httpStatus, httpDetail, response>>
    /\ UNCHANGED <<fnVars, dbVars, poolVars>>

\* ------------------------------------------------------ the engine's replies
\* The detail names the engine is drawn to answer with.
DetailNames == {"surface", "smoothness"}
ContentTypes == {"application/json", "application/json; charset=utf-8", "text/html"}
ErrorStatuses == {400, 500}
StatusText(status_code) ==
    CASE status_code = 400 -> "400"
      [] status_code = 500 -> "500"
      [] OTHER -> "200"

\* A coordinate of a path: [lon, lat], [lon, lat, elevation], or one too short.
PathCoordinates == {<<0, 0>>, <<90, 0, 520>>, <<90>>}
PathCoordinateLists == UNION {[1..n -> PathCoordinates] : n \in 0..MaxPathCoords}
PathPoints ==
    {[type |-> "absent", coordinates |-> <<>>]}
        \cup [type : {"LineString", "array"}, coordinates : PathCoordinateLists]
\* A detail list of a path: empty, one triple, or one triple too short.
PathDetailLists == {<<>>, << <<0, 1, "asphalt">> >>, << <<0, 1>> >>}
PathDetails == UNION {[D -> PathDetailLists] : D \in SUBSET DetailNames}
Paths ==
    [points : PathPoints,
     distance : {None, Some(1500)},
     time : {Some(360000)},
     details : {None} \cup {Some(dd) : dd \in PathDetails}]
    \cup
    [points : {[type |-> "absent", coordinates |-> <<>>]},
     distance : {Some(1500)},
     time : {None},
     details : {None}]

NoBody == [json |-> "invalid", message |-> None, paths |-> None]
ArrayBody == [json |-> "array", message |-> None, paths |-> None]
ErrorBodies ==
    {NoBody, ArrayBody}
        \cup [json : {"object"},
              message : {None, Some(JsonNull), Some(""), Some("Cannot find point 0")},
              paths : {None}]
OkBodies ==
    {NoBody, ArrayBody}
        \cup [json : {"object"}, message : {None}, paths : {None, Some(<<>>)}]
        \cup [json : {"object"}, message : {None}, paths : {Some(<<p>>) : p \in Paths}]

EngineReplies ==
    [kind : {"connection_error", "timeout"}, status_code : {0},
     content_type : {""}, body : {NoBody}]
    \cup [kind : {"http"}, status_code : ErrorStatuses,
          content_type : ContentTypes, body : ErrorBodies]
    \cup [kind : {"http"}, status_code : {200},
          content_type : {"application/json"}, body : OkBodies]

\* ------------------------------- execute_route_request, after requests.post
\* The RouteResponse of every failure path.
Failure(profile, error) ==
    [geometry |-> [coordinates |-> <<>>, elevation_profile |-> None,
                   coordinate_distances |-> None],
     metrics |-> [distance_meters |-> 0, time_ms |-> 0],
     profile |-> profile,
     segments |-> None,
     success |-> FALSE,
     error |-> error]

ConnectionFailed(profile, what) == Failure(profile, Some(<<"Connection failed: ", what>>))
UnexpectedError(profile, what) == Failure(profile, Some(<<"Unexpected error: ", what>>))
\* response.json() on an unparsable body: requests raises its JSONDecodeError,
\* a RequestException from requests 2.27 on and a plain ValueError before.
JsonDecodeError(profile, asRequestException) ==
    IF asRequestException THEN ConnectionFailed(profile, "Expecting value")
    ELSE UnexpectedError(profile, "Expecting value")

\* if response.status_code != 200: ...
ErrorStatusResponse(a, r, asRequestException) ==
    IF r.content_type = "application/json"
    THEN CASE r.body.json = "invalid" -> JsonDecodeError(a.profile, asRequestException)
           [] r.body.json = "array" ->
                UnexpectedError(a.profile, "'list' object has no attribute 'get'")
           [] OTHER ->
                Failure(a.profile,
                        IF r.body.message = None
                        THEN Some(<<"HTTP ", StatusText(r.status_code)>>)
                        ELSE IF r.body.message[1] = JsonNull THEN None
                        ELSE Some(<<r.body.message[1]>>))
    ELSE Failure(a.profile, Some(<<"HTTP ", StatusText(r.status_code)>>))

\* path = data["paths"][0] and everything after it.
PathResponse(a, path) ==
    LET cs == path.points.coordinates
        frontend_coordinates == [i \in 1..Len(cs) |-> <<cs[i][1], cs[i][2]>>]
        cd == calculate_cumulative_distances(frontend_coordinates)
        wantSegments == SizedTruthy(a.details, <<>>) /\ path.details # None
    IN  IF \E i \in 1..Len(cs) : Len(cs[i]) < 2
        THEN UnexpectedError(a.profile, "list index out of range")
        ELSE IF wantSegments /\ merge_detail_segments_raises(frontend_coordinates, path.details[1])
        THEN UnexpectedError(a.profile, "not enough values to unpack (expected 3, got 2)")
        ELSE IF path.distance = None THEN UnexpectedError(a.profile, "'distance'")
        ELSE IF path.time = None THEN UnexpectedError(a.profile, "'time'")
        ELSE [geometry |->
                [coordinates |-> frontend_coordinates,
                 elevation_profile |->
                    IF a.include_elevation /\ cs # <<>>
                    THEN Some(create_elevation_profile_from_coordinates(cs, cd))
                    ELSE None,
                 coordinate_distances |-> Some(cd)],
              metrics |-> [distance_meters |-> path.distance[1], time_ms |-> path.time[1]],
              profile |-> a.profile,
              segments |->
                 IF wantSegments
                 THEN Some(merge_detail_segments(frontend_coordinates, path.details[1], cd))
                 ELSE None,
              success |-> TRUE,
              error |-> None]

\* The RouteResponse execute_route_request returns for the engine's reply r.
RouteResult(a, r, asRequestException) ==
    CASE r.kind = "connection_error" -> ConnectionFailed(a.profile, "Connection refused")
      [] r.kind = "timeout" -> ConnectionFailed(a.profile, "Read timed out")
      [] r.kind = "http" /\ r.status_code # 200 -> ErrorStatusResponse(a, r, asRequestException)
      [] OTHER ->
           CASE r.body.json = "invalid" -> JsonDecodeError(a.profile, asRequestException)
             [] r.body.json = "array" ->
                  UnexpectedError(a.profile, "'list' object has no attribute 'get'")
             [] r.body.paths = None \/ r.body.paths = Some(<<>>) ->
                  Failure(a.profile, Some(<<"No route found">>))
             [] OTHER -> PathResponse(a, r.body.paths[1][1])

\* A faulty variant: after a timeout or a connection failure the request is
\* sent again.
execute_route_request_reply_retrying ==
    /\ pc = "posted"
    /\ \E r \in EngineReplies :
         \E asRequestException \in (IF r.kind = "http" /\ r.body.json = "invalid" THEN BOOLEAN ELSE {TRUE}) :
            /\ reply' = r
            /\ response' = RouteResult(args, r, asRequestException)
            /\ IF r.kind \in {"connection_error", "timeout"}
               THEN pc' = "queued" /\ httpStatus' = 0
               ELSE pc' = "done" /\ httpStatus' = 200
    /\ UNCHANGED <<request, builder, builderCalled, args, payload, posts, httpDetail>>
    /\ UNCHANGED <<fnVars, dbVars, poolVars>>

\* The engine's reply arrives (or the call fails); execute_route_request
\* returns and get_route answers 200 with the RouteResponse as the body.
execute_route_request_reply ==
    /\ pc = "posted"
    /\ \E r \in EngineReplies :
         \E asRequestException \in (IF r.kind = "http" /\ r.body.json = "invalid" THEN BOOLEAN ELSE {TRUE}) :
            /\ reply' = r
            /\ response' = RouteResult(args, r, asRequestException)
    /\ httpStatus' = 200
    /\ pc' = "done"
    /\ UNCHANGED <<request, builder, builderCalled, args, payload, posts, httpDetail>>
    /\ UNCHANGED <<fnVars, dbVars, poolVars>>

\* ------------------------------------------------------------ drawn inputs
\* One [lon, lat] coordinate on the grid.
GridCoordinates == {<<lon, lat>> : lon \in Lons, lat \in Lats}

\* A route of n coordinates along the equator, 90 degrees a leg, turning back
\* after 180 degrees (so that legs of both directions occur).
RouteOf(n) == [i \in 1..n |-> <<90 * (IF i % 4 = 0 THEN 1 ELSE (i % 4) - 1), 0>>]

TripleValues == {"asphalt"}
\* Indices a triple may carry for a route of n coordinates: negative, inside,
\* and beyond n.
TripleIndices(n) == -1..(n + 1)

TripleCount(dd) ==
    LET RECURSIVE Sum(_)
        Sum(D) == IF D = {} THEN 0
                  ELSE LET d == CHOOSE x \in D : TRUE IN Len(dd[d]) + Sum(D \ {d})
    IN  Sum(DOMAIN dd)

\* --------------------------------------------------- the request at rest
RouteIdle ==
    /\ pc = "idle"
    /\ request = None
    /\ builder = None
    /\ builderCalled = FALSE
    /\ args = None
    /\ payload = None
    /\ posts = 0
    /\ reply = None
    /\ httpStatus = 0
    /\ httpDetail = None
    /\ response = None

\* No request has been handed to the thread pool.
PoolIdle ==
    /\ submitted = 0
    /\ work_queue = <<>>
    /\ running = {}
    /\ responded = [i \in 1..MaxRequests |-> 0]
    /\ waited = {}

FnIdle ==
    /\ fpc = "input"
    /\ coordinates = <<>>
    /\ details_data = [d \in {} |-> <<>>]
    /\ coordinate_distances = <<>>
    /\ segments = <<>>

\* The id sequences of the two tables with integer keys, nothing issued yet.
NoIdIssued == [graphhopper_custom_profiles |-> 0, profile_priors |-> 0]
\* A column of a table: its name and whether it takes NULL.
Column(name, nullable) == [name |-> name, nullable |-> nullable]
\* The alembic revisions and the columns of profile_priors the migration is
\* about: before it with parameters, after it with means and variances.
OldRevision == "f44c8b1fa365"
NewRevision == "246677e8a89f"
OldSchema ==
    [version |-> OldRevision,
     profile_priors |-> {Column("id", FALSE), Column("version", FALSE), Column("parameters", FALSE)}]
NewSchema ==
    [version |-> NewRevision,
     profile_priors |-> {Column("id", FALSE), Column("version", FALSE),
                         Column("means", FALSE), Column("variances", FALSE)}]
\* No table has a row and no tool is running.
DbIdle ==
    /\ graphhopper_custom_profiles = {}
    /\ profile_priors = {}
    /\ user_profiles = {}
    /\ learned_parameters = {}
    /\ id_seq = NoIdIssued
    /\ schema = NewSchema
    /\ proc = <<>>
    /\ returned = None

\* ------------------------ specification: calculate_cumulative_distances
AppendCoordinate ==
    /\ fpc = "input"
    /\ Len(coordinates) < MaxCoords
    /\ \E c \in GridCoordinates : coordinates' = Append(coordinates, c)
    /\ UNCHANGED <<fpc, details_data, coordinate_distances, segments>>
    /\ UNCHANGED <<routeVars, dbVars, poolVars>>

CalculateCumulativeDistances ==
    /\ fpc = "input"
    /\ coordinate_distances' = calculate_cumulative_distances(coordinates)
    /\ fpc' = "distances"
    /\ UNCHANGED <<coordinates, details_data, segments>>
    /\ UNCHANGED <<routeVars, dbVars, poolVars>>

InitCumulative == RouteIdle /\ FnIdle /\ DbIdle /\ PoolIdle
NextCumulative == AppendCoordinate \/ CalculateCumulativeDistances
SpecCumulative == InitCumulative /\ [][NextCumulative]_vars

\* ------------------------------- specification: merge_detail_segments
AddDetailName ==
    /\ fpc = "input"
    /\ \E d \in DetailNames \ DOMAIN details_data :
          details_data' = [x \in DOMAIN details_data \cup {d} |->
                              IF x = d THEN <<>> ELSE details_data[x]]
    /\ UNCHANGED <<fpc, coordinates, coordinate_distances, segments>>
    /\ UNCHANGED <<routeVars, dbVars, poolVars>>

AddTriple ==
    /\ fpc = "input"
    /\ TripleCount(details_data) < MaxTriples
    /\ \E d \in DOMAIN details_data, a, b \in TripleIndices(Len(coordinates)), v \in TripleValues :
          details_data' = [details_data EXCEPT ![d] = Append(@, <<a, b, v>>)]
    /\ UNCHANGED <<fpc, coordinates, coordinate_distances, segments>>
    /\ UNCHANGED <<routeVars, dbVars, poolVars>>

MergeDetailSegments ==
    /\ fpc = "input"
    /\ segments' = merge_detail_segments(coordinates, details_data, coordinate_distances)
    /\ fpc' = "merged"
    /\ UNCHANGED <<coordinates, details_data, coordinate_distances>>
    /\ UNCHANGED <<routeVars, dbVars, poolVars>>

InitMerge ==
    /\ RouteIdle
    /\ PoolIdle
    /\ DbIdle
    /\ fpc = "input"
    /\ coordinates \in {RouteOf(n) : n \in 1..MaxRoute}
    /\ coordinate_distances = calculate_cumulative_distances(coordinates)
    /\ details_data = [d \in {} |-> <<>>]
    /\ segments = <<>>
NextMerge == AddDetailName \/ AddTriple \/ MergeDetailSegments
SpecMerge == InitMerge /\ [][NextMerge]_vars

\* ------------------- specification: value_for_segment on every kind of value
\* The values a triple may carry: absent (null), the four texts the code
\* treats as absent, and two real values.
DetailValues == {JsonNull, "", "missing", "null", "undefined", "asphalt", "gravel"}
\* Routes of two and of three coordinates.
ValueRoutes == {RouteOf(2), RouteOf(3)}

AddValuedTriple ==
    /\ fpc = "input"
    /\ Len(details_data["surface"]) < MaxValueTriples
    /\ \E a, b \in 0..Len(coordinates), v \in DetailValues :
          details_data' = [details_data EXCEPT !["surface"] = Append(@, <<a, b, v>>)]
    /\ UNCHANGED <<fpc, coordinates, coordinate_distances, segments>>
    /\ UNCHANGED <<routeVars, dbVars, poolVars>>

InitValues ==
    /\ RouteIdle
    /\ PoolIdle
    /\ DbIdle
    /\ fpc = "input"
    /\ coordinates \in ValueRoutes
    /\ coordinate_distances = calculate_cumulative_distances(coordinates)
    /\ details_data = [d \in {"surface"} |-> <<>>]
    /\ segments = <<>>
NextValues == AddValuedTriple \/ MergeDetailSegments
SpecValues == InitValues /\ [][NextValues]_vars

\* ------------- specification: merge_detail_segments on contiguous triples
\* The values of contiguous triples: two real ones and the engine's "missing".
ContiguousValues == {"asphalt", "gravel", "missing"}

\* The next triple starts where the last one ended (the first at 0) and ends
\* at or after its start, at most at n (end exclusive).
AppendContiguousTriple ==
    /\ fpc = "input"
    /\ Len(details_data["surface"]) < MaxContiguousTriples
    /\ LET l == details_data["surface"]
           a == IF l = <<>> THEN 0 ELSE l[Len(l)][2]
       IN  \E b \in a..Len(coordinates), v \in ContiguousValues :
              details_data' = [details_data EXCEPT !["surface"] = Append(@, <<a, b, v>>)]
    /\ UNCHANGED <<fpc, coordinates, coordinate_distances, segments>>
    /\ UNCHANGED <<routeVars, dbVars, poolVars>>

InitContiguous ==
    /\ RouteIdle
    /\ PoolIdle
    /\ DbIdle
    /\ fpc = "input"
    /\ coordinates \in {RouteOf(n) : n \in 0..MaxContiguousRoute}
    /\ coordinate_distances = calculate_cumulative_distances(coordinates)
    /\ details_data = [d \in {"surface"} |-> <<>>]
    /\ segments = <<>>
NextContiguous == AppendContiguousTriple \/ MergeDetailSegments
SpecContiguous == InitContiguous /\ [][NextContiguous]_vars

\* ============================================ the database and its tools
\* ------------------------------------------------------- db/models.py
DisciplineType == {"road", "gravel", "mtb", "trekking", "commute"}

\* A GraphHopperCustomProfile row (created_at, updated_at left to the server).
ProfileRow(id, discipline, name, description, template, parameters, version, is_active, template_hash) ==
    [id |-> id, discipline |-> discipline, name |-> name, description |-> description,
     template |-> template, parameters |-> parameters, version |-> version,
     is_active |-> is_active, template_hash |-> template_hash]

\* A ProfilePrior row.
PriorRow(id, profile_id, means, variances, training_metadata, version, is_active) ==
    [id |-> id, profile_id |-> profile_id, means |-> means, variances |-> variances,
     training_metadata |-> training_metadata, version |-> version, is_active |-> is_active]

\* UniqueConstraint('discipline', 'version', name='unique_discipline_version')
unique_discipline_version(rows, row) ==
    ~\E r \in rows : r.discipline = row.discipline /\ r.version = row.version

\* UniqueConstraint('profile_id', 'version', name='unique_profile_prior_version')
unique_profile_prior_version(rows, row) ==
    ~\E r \in rows : r.profile_id = row.profile_id /\ r.version = row.version

\* func.max(...).scalar(): the largest value, None over no rows.
ScalarMax(values) ==
    IF values = {} THEN None ELSE Some(CHOOSE x \in values : \A y \in values : y <= x)

\* ---------------------------------- get_next_version, get_next_prior_version
\* A faulty variant: the number of the discipline's rows plus one.
get_next_version_by_count(rows, discipline) ==
    Cardinality({r \in rows : r.discipline = discipline}) + 1

\* (max_version or 0) + 1 over the rows of the discipline.
get_next_version(rows, discipline) ==
    LET max_version == ScalarMax({r.version : r \in {x \in rows : x.discipline = discipline}})
    IN  (IF IntTruthy(max_version) THEN max_version[1] ELSE 0) + 1

\* (max_version or 0) + 1 over the priors of the profile.
get_next_prior_version(rows, profile_id) ==
    LET max_version == ScalarMax({r.version : r \in {x \in rows : x.profile_id = profile_id}})
    IN  (IF IntTruthy(max_version) THEN max_version[1] ELSE 0) + 1

\* ------------------- specification: the next-version functions on any table
\* Versions the drawn rows carry (with gaps).
ExistingVersions == {1, 2, 5}
\* Disciplines and profile ids the drawn rows carry.
DrawnDisciplines == {"road", "gravel"}
DrawnProfileIds == {1, 2}
\* The parameter names that occur, with their sorting order.
ParameterNames == {"a", "b", "c"}
ParameterRank(name) == CASE name = "a" -> 1 [] name = "b" -> 2 [] name = "c" -> 3

DrawnProfile(discipline, version, is_active) ==
    ProfileRow(10 * version + (IF discipline = "road" THEN 1 ELSE 2), discipline,
               "drawn", "", "priority", <<"a", "b">>, version, is_active, <<"sha256", "priority">>)
DrawnPrior(profile_id, version, is_active) ==
    PriorRow(10 * version + profile_id, profile_id, {<<"a", 1>>, <<"b", 1>>},
             {<<"a", 1>>, <<"b", 1>>}, None, version, is_active)

\* Every table of drawn rows the unique constraint admits.
ProfileTables ==
    {T \in SUBSET {DrawnProfile(d, v, a) : d \in DrawnDisciplines, v \in ExistingVersions, a \in BOOLEAN} :
        \A r \in T : unique_discipline_version(T \ {r}, r)}
PriorTables ==
    {T \in SUBSET {DrawnPrior(i, v, a) : i \in DrawnProfileIds, v \in ExistingVersions, a \in BOOLEAN} :
        \A r \in T : unique_profile_prior_version(T \ {r}, r)}
\* The profiles the drawn priors belong to.
TwoProfiles ==
    {ProfileRow(1, "road", "road_01", "", "priority", <<"a", "b">>, 1, TRUE, <<"sha256", "priority">>),
     ProfileRow(2, "gravel", "gravel_01", "", "priority", <<>>, 1, TRUE, <<"sha256", "priority">>)}

GetNextVersion ==
    /\ returned = None
    /\ \E d \in DisciplineType :
          returned' = Some([fn |-> "get_next_version", arg |-> d,
                            value |-> get_next_version(graphhopper_custom_profiles, d)])
    /\ UNCHANGED <<tables, proc>>
    /\ UNCHANGED <<routeVars, fnVars, poolVars>>

GetNextPriorVersion ==
    /\ returned = None
    /\ \E i \in DrawnProfileIds \cup {3} :
          returned' = Some([fn |-> "get_next_prior_version", arg |-> i,
                            value |-> get_next_prior_version(profile_priors, i)])
    /\ UNCHANGED <<tables, proc>>
    /\ UNCHANGED <<routeVars, fnVars, poolVars>>

InitVersions ==
    /\ RouteIdle
    /\ PoolIdle
    /\ FnIdle
    /\ \/ graphhopper_custom_profiles \in ProfileTables /\ profile_priors = {}
       \/ graphhopper_custom_profiles = TwoProfiles /\ profile_priors \in PriorTables
    /\ user_profiles = {}
    /\ learned_parameters = {}
    /\ id_seq = NoIdIssued
    /\ schema = NewSchema
    /\ proc = <<>>
    /\ returned = None
NextVersions == GetNextVersion \/ GetNextPriorVersion
SpecVersions == InitVersions /\ [][NextVersions]_vars

\* ------------------------------------------- scripts/add_custom_profile.py
\* An exception: its class and its message.
Exception(type, text) == [type |-> type, text |-> text]
ValueError(text) == Exception("ValueError", text)

\* str.lower() on the discipline arguments that occur.
Lower(str) == CASE str = "Gravel" -> "gravel" [] OTHER -> str

\* validate_discipline: the enum member, or the ValueError.
validate_discipline(discipline) ==
    IF Lower(discipline) \in DisciplineType
    THEN [value |-> Some(Lower(discipline)), error |-> None]
    ELSE [value |-> None,
          error |-> Some(ValueError(<<"Invalid discipline '", discipline, "'. Valid options: ",
                                      "['road', 'gravel', 'mtb', 'trekking', 'commute']">>))]

\* A template file: whether it exists, its text, what the text parses to
\* (json), whether "priority" in template_json holds (a key of an object, an
\* element of an array, a substring of a string), what kind of value
\* template_json["priority"] is, and the placeholders the pattern matches.
TemplateFile(text, exists, json, contains_priority, priority, matches) ==
    [text |-> text, exists |-> exists, json |-> json, contains_priority |-> contains_priority,
     priority |-> priority, matches |-> matches]
TemplateFiles ==
    {TemplateFile("{priority: [{a}, {b}, {a}]}", TRUE, "object", TRUE, "array", <<"b", "a", "b">>),
     TemplateFile("{priority: []}", TRUE, "object", TRUE, "array", <<>>),
     TemplateFile("{speed: [{a}]}", TRUE, "object", FALSE, "absent", <<"a">>),
     TemplateFile("{priority: 'high'}", TRUE, "object", TRUE, "string", <<>>),
     TemplateFile("{priority: {if: {c}}}", TRUE, "object", TRUE, "object", <<"c">>),
     TemplateFile("['speed']", TRUE, "array", FALSE, "absent", <<>>),
     TemplateFile("['priority']", TRUE, "array", TRUE, "absent", <<>>),
     TemplateFile("'priority'", TRUE, "string", TRUE, "absent", <<>>),
     TemplateFile("5", TRUE, "number", FALSE, "absent", <<>>),
     TemplateFile("{priority: [", TRUE, "invalid", FALSE, "absent", <<>>),
     TemplateFile("", FALSE, "invalid", FALSE, "absent", <<>>)}

\* validate_template_json: None, or the exception raised.  The handler of an
\* unparsable text builds json.JSONDecodeError from one argument, which is
\* itself a TypeError.
validate_template_json(template) ==
    IF ~template.exists
    THEN Some(Exception("FileNotFoundError", <<"Template file not found: ", template.text>>))
    ELSE IF template.json = "invalid"
    THEN Some(Exception("TypeError", <<"JSONDecodeError.__init__() missing 2 required positional arguments: 'doc' and 'pos'">>))
    ELSE None

\* sorted(list(names)) by the order of the names.
RECURSIVE SortedNames(_)
SortedNames(names) ==
    IF names = {} THEN <<>>
    ELSE LET m == CHOOSE x \in names : \A y \in names : ParameterRank(x) <= ParameterRank(y)
         IN  <<m>> \o SortedNames(names \ {m})

\* extract_parameters_from_template: the unique matches, sorted.
extract_parameters_from_template(template) ==
    SortedNames({template.matches[i] : i \in 1..Len(template.matches)})

\* compute_template_hash: the digest, one per text.
compute_template_hash(template) == <<"sha256", template.text>>

\* A faulty variant: no check of the template's priority field.
PriorityErrorUnchecked(template) == None

\* Lines 180-183: "priority" not in template_json, then
\* isinstance(template_json["priority"], list).
PriorityError(template) ==
    IF template.json \notin {"object", "array", "string"}
    THEN Some(Exception("TypeError", <<"argument of type '", template.json, "' is not iterable">>))
    ELSE IF ~template.contains_priority
    THEN Some(ValueError(<<"GraphHopper template must contain 'priority' field">>))
    ELSE IF template.json # "object"
    THEN Some(Exception("TypeError", <<template.json, " indices must be integers">>))
    ELSE IF template.priority # "array"
    THEN Some(ValueError(<<"GraphHopper 'priority' field must be an array">>))
    ELSE None

\* What create_custom_profile raises before it opens a session (lines
\* 162-183), None when it gets to SessionLocal().
RegisterValidationError(discipline, template) ==
    IF validate_discipline(discipline).error # None THEN validate_discipline(discipline).error
    ELSE IF validate_template_json(template) # None THEN validate_template_json(template)
    ELSE PriorityError(template)

\* The text of the IntegrityError the database raises for a violated
\* constraint: it quotes the constraint's name.
IntegrityErrorText(constraint) ==
    <<"(psycopg2.errors.UniqueViolation) duplicate key value violates unique constraint ",
      constraint>>
\* "name" in str(e)
Mentions(text, name) == \E i \in 1..Len(text) : text[i] = name

\* A faulty variant: the database's error handed on under a general heading.
register_integrity_error_raw(e, discipline, version) ==
    ValueError(<<"Database constraint error: ">> \o e)

\* Lines 217-222: the ValueError raised in place of an IntegrityError e.
register_integrity_error(e, discipline, version) ==
    IF Mentions(e, "unique_discipline_version")
    THEN ValueError(<<"A profile for discipline '", discipline, "' version ", ToString(version),
                      " already exists">>)
    ELSE ValueError(<<"Database constraint error: ">> \o e)

\* The invocations of the tool, and the arguments they are given.
RegisterProcs == 1..MaxRegistrations
RegisterDisciplines == {"road", "Gravel", "bmx"}
RegisterName(p) == "profile_" \o ToString(p)

\* An invocation that ended: sys.exit(1) after an exception, 0 otherwise.
Exited(state, error) ==
    [state EXCEPT !.pc = "done", !.error = error, !.exit = Some(IF error = None THEN 0 ELSE 1)]

\* main() up to SessionLocal(): parse the arguments, validate them; an
\* exception ends the invocation with status 1 before any session exists.
RegisterValidate(p) ==
    /\ proc[p].pc = "idle"
    /\ \E discipline \in RegisterDisciplines, template \in TemplateFiles :
          LET error == RegisterValidationError(discipline, template)
              state == [pc |-> "opened", discipline |-> discipline, name |-> RegisterName(p),
                        template |-> template, version |-> None, profile |-> None,
                        session |-> IF error = None THEN <<"open">> ELSE <<>>,
                        report |-> "", error |-> None, exit |-> None]
          IN  proc' = [proc EXCEPT ![p] = IF error = None THEN state ELSE Exited(state, error)]
    /\ UNCHANGED <<tables, returned>>
    /\ UNCHANGED <<routeVars, fnVars, poolVars>>

\* version = get_next_version(db, discipline_enum): one query, which sees the
\* committed rows.
RegisterGetNextVersion(p) ==
    /\ proc[p].pc = "opened"
    /\ proc' = [proc EXCEPT ![p].pc = "versioned",
                             ![p].version = Some(get_next_version(graphhopper_custom_profiles,
                                                                  Lower(proc[p].discipline))),
                             ![p].session = Append(@, "query")]
    /\ UNCHANGED <<tables, returned>>
    /\ UNCHANGED <<routeVars, fnVars, poolVars>>

\* db.add(profile) and the INSERT that db.commit() flushes.  The INSERT waits
\* while another transaction holds an uncommitted row of the same discipline
\* and version; against a committed one it raises IntegrityError, which the
\* handler answers with rollback, the ValueError and close.
RegisterInsert(p) ==
    /\ proc[p].pc = "versioned"
    /\ LET st == proc[p]
           row == ProfileRow(id_seq.graphhopper_custom_profiles + 1, Lower(st.discipline), st.name,
                             "description", st.template.text,
                             extract_parameters_from_template(st.template), st.version[1], TRUE,
                             compute_template_hash(st.template))
       IN  /\ \A q \in DOMAIN proc \ {p} :
                 proc[q].pc = "flushed" => unique_discipline_version({proc[q].profile[1]}, row)
           /\ id_seq' = [id_seq EXCEPT !.graphhopper_custom_profiles = @ + 1]
           /\ IF unique_discipline_version(graphhopper_custom_profiles, row)
              THEN proc' = [proc EXCEPT ![p].pc = "flushed", ![p].profile = Some(row),
                                        ![p].session = @ \o <<"add", "flush">>]
              ELSE proc' = [proc EXCEPT ![p] =
                              Exited([st EXCEPT !.session = @ \o <<"add", "flush", "rollback", "close">>],
                                     Some(register_integrity_error(
                                            IntegrityErrorText("unique_discipline_version"),
                                            st.discipline, st.version[1])))]
    /\ UNCHANGED <<graphhopper_custom_profiles, profile_priors, user_profiles, learned_parameters, returned, schema>>
    /\ UNCHANGED <<routeVars, fnVars, poolVars>>

\* The COMMIT of db.commit(), the report, db.close(), and exit status 0.
RegisterCommit(p) ==
    /\ proc[p].pc = "flushed"
    /\ graphhopper_custom_profiles' = graphhopper_custom_profiles \cup {proc[p].profile[1]}
    /\ proc' = [proc EXCEPT ![p] = Exited([proc[p] EXCEPT !.session = @ \o <<"commit", "close">>], None)]
    /\ UNCHANGED <<profile_priors, user_profiles, learned_parameters, id_seq, returned, schema>>
    /\ UNCHANGED <<routeVars, fnVars, poolVars>>

\* --------------- specification: concurrent invocations of add_custom_profile
InitRegister ==
    /\ RouteIdle
    /\ PoolIdle
    /\ FnIdle
    /\ graphhopper_custom_profiles \in {{}, TwoProfiles}
    /\ profile_priors = {}
    /\ user_profiles = {}
    /\ learned_parameters = {}
    /\ id_seq = [NoIdIssued EXCEPT !.graphhopper_custom_profiles = Cardinality(graphhopper_custom_profiles)]
    /\ schema = NewSchema
    /\ proc = [p \in RegisterProcs |-> [pc |-> "idle"]]
    /\ returned = None
NextRegister ==
    \E p \in RegisterProcs :
        RegisterValidate(p) \/ RegisterGetNextVersion(p) \/ RegisterInsert(p) \/ RegisterCommit(p)
SpecRegister == InitRegister /\ [][NextRegister]_vars

\* --------------------------------------------- scripts/add_prior_config.py
\* A value read from the YAML file: absent, an integer n, or something else
\* (a text, a list; n is 0 then).
YamlAbsent == [kind |-> "absent", n |-> 0]
YamlInt(n) == [kind |-> "int", n |-> n]
YamlOther(kind) == [kind |-> kind, n |-> 0]

\* repr() of a list of names: ['a', 'b'].
RECURSIVE JoinNames(_)
JoinNames(names) ==
    IF names = <<>> THEN ""
    ELSE IF Len(names) = 1 THEN "'" \o names[1] \o "'"
    ELSE "'" \o names[1] \o "', " \o JoinNames(Tail(names))
Repr(names) == "[" \o JoinNames(names) \o "]"

\* The parameters of a configuration: name and value, in the file's order
\* (the names in sorted order, as generate mode writes them).
ParameterValues == {YamlInt(1), YamlInt(0), YamlOther("str")}
ParameterItems ==
    UNION {{[i \in 1..Len(SortedNames(S)) |-> <<SortedNames(S)[i], f[SortedNames(S)[i]]>>] :
               f \in [S -> ParameterValues]} : S \in SUBSET ParameterNames}

\* The parsed configuration files that occur.
PriorConfigs ==
    [custom_profile_id : {YamlAbsent, YamlInt(1), YamlInt(2), YamlInt(3), YamlOther("str")},
     version : {YamlAbsent, YamlInt(0), YamlInt(1), YamlInt(2), YamlOther("str")},
     parameters : {[kind |-> "absent", items |-> <<>>], [kind |-> "list", items |-> <<>>]}
                    \cup {[kind |-> "dict", items |-> items] : items \in ParameterItems},
     training_metadata : {YamlAbsent, YamlOther("dict")}]
\* A configuration file: missing, not YAML, without content, or a mapping.
ConfigFiles ==
    {[file |-> f, config |-> None] : f \in {"missing", "malformed", "empty"}}
        \cup {[file |-> "mapping", config |-> Some(c)] : c \in PriorConfigs}

\* The names of a parameters mapping.
ParameterNamesOf(items) == {items[i][1] : i \in 1..Len(items)}

\* The ValueError for the first parameter, from position k on, whose value is
\* not numeric or not positive (lines 149-157; the names that occur are
\* non-empty texts).
RECURSIVE ParameterValueError(_, _)
ParameterValueError(items, k) ==
    IF k > Len(items) THEN None
    ELSE IF items[k][2].kind # "int"
    THEN Some(ValueError(<<"Parameter '", items[k][1], "' must have a numeric value, got: ",
                           "<class '", items[k][2].kind, "'>">>))
    ELSE IF items[k][2].n <= 0
    THEN Some(ValueError(<<"Parameter '", items[k][1], "' must have a positive value, got: ",
                           ToString(items[k][2].n)>>))
    ELSE ParameterValueError(items, k + 1)

\* validate_prior_config: None, or the ValueError it raises.
validate_prior_config(config) ==
    LET required_fields == <<"custom_profile_id", "version", "parameters">>
        present(field) == CASE field = "custom_profile_id" -> config.custom_profile_id.kind # "absent"
                            [] field = "version" -> config.version.kind # "absent"
                            [] field = "parameters" -> config.parameters.kind # "absent"
        absent(field) == ~present(field)
        missing_fields == SelectSeq(required_fields, absent)
    IN  IF missing_fields # <<>>
        THEN Some(ValueError(<<"Missing required fields in configuration: ", Repr(missing_fields)>>))
        ELSE IF config.custom_profile_id.kind # "int"
        THEN Some(ValueError(<<"custom_profile_id must be an integer">>))
        ELSE IF config.version.kind # "int" \/ config.version.n < 1
        THEN Some(ValueError(<<"version must be a positive integer">>))
        ELSE IF config.parameters.kind # "dict"
        THEN Some(ValueError(<<"parameters must be a dictionary">>))
        ELSE IF config.parameters.items = <<>>
        THEN Some(ValueError(<<"parameters dictionary cannot be empty">>))
        ELSE ParameterValueError(config.parameters.items, 1)

\* Lines 175-190: what insert_prior_config raises before it opens a session.
InsertValidationError(file) ==
    IF file.file = "missing"
    THEN Some(Exception("FileNotFoundError", <<"Configuration file not found: ", "prior_config.yaml">>))
    ELSE IF file.file = "malformed"
    THEN Some(Exception("YAMLError", <<"Invalid YAML format in ", "prior_config.yaml">>))
    ELSE IF file.file = "empty"
    THEN Some(ValueError(<<"Configuration file is empty or contains no data">>))
    ELSE validate_prior_config(file.config[1])

\* .filter(id == ...).first(): the row of that id, None without one.
FirstById(rows, id) ==
    IF \E r \in rows : r.id = id THEN Some(CHOOSE r \in rows : r.id = id) ELSE None

\* A faulty variant: only the declared names that are not supplied count.
ParameterMismatchErrorMissingOnly(profile, items) ==
    LET profile_params == {profile.parameters[i] : i \in 1..Len(profile.parameters)}
        missing_params == profile_params \ ParameterNamesOf(items)
    IN  IF missing_params = {} THEN None
        ELSE Some(ValueError(<<"Missing parameters: ", Repr(SortedNames(missing_params)), ". ",
                               "Profile '", profile.name, "' expects: ",
                               Repr(SortedNames(profile_params))>>))

\* Lines 203-218: the ValueError for parameter names that differ from the
\* profile's.
ParameterMismatchError(profile, items) ==
    LET profile_params == {profile.parameters[i] : i \in 1..Len(profile.parameters)}
        config_params == ParameterNamesOf(items)
        missing_params == profile_params \ config_params
        extra_params == config_params \ profile_params
        missing_part == IF missing_params # {}
                        THEN <<"Missing parameters: ", Repr(SortedNames(missing_params))>> ELSE <<>>
        extra_part == IF extra_params # {}
                      THEN <<"Extra parameters: ", Repr(SortedNames(extra_params))>> ELSE <<>>
        joined == IF missing_part # <<>> /\ extra_part # <<>>
                  THEN missing_part \o <<". ">> \o extra_part
                  ELSE missing_part \o extra_part
    IN  IF profile_params = config_params THEN None
        ELSE Some(ValueError(joined \o <<". ", "Profile '", profile.name, "' expects: ",
                                         Repr(SortedNames(profile_params))>>))

\* A faulty variant: no look for a prior of that profile and version.
ExistingPriorErrorUnchecked(rows, profile_id, version) == None

\* Lines 220-230: the ValueError for a version the profile already has.
ExistingPriorError(rows, profile_id, version) ==
    IF \E r \in rows : r.profile_id = profile_id /\ r.version = version
    THEN Some(ValueError(<<"Prior version ", ToString(version), " already exists for profile ",
                           ToString(profile_id), ". ",
                           "Use a different version number or delete the existing prior first.">>))
    ELSE None

\* The attributes of ProfilePrior (its columns and its relationship).
ProfilePriorAttributes ==
    {"id", "profile_id", "means", "variances", "training_metadata", "version", "is_active",
     "created_at", "profile"}
\* The keywords insert_prior_config constructs its ProfilePrior with.
InsertKeywords == <<"profile_id", "parameters", "training_metadata", "version", "is_active">>

\* The constructor of a mapped class: the TypeError for the first keyword
\* that is not an attribute of the class.
ConstructorError(attributes, keywords) ==
    LET unknown(k) == k \notin attributes
        invalid == SelectSeq(keywords, unknown)
    IN  IF invalid = <<>> THEN None
        ELSE Some(Exception("TypeError", <<"'", invalid[1], "' is an invalid keyword argument for ",
                                           "ProfilePrior">>))

\* The IntegrityError text of the INSERT of a prior row, None when the row is
\* admitted: means and variances are NOT NULL, (profile_id, version) unique.
PriorFlushError(rows, row) ==
    IF row.means = None \/ row.variances = None
    THEN Some(<<"(psycopg2.errors.NotNullViolation) null value in column ", "means">>)
    ELSE IF ~unique_profile_prior_version(rows, row)
    THEN Some(IntegrityErrorText("unique_profile_prior_version"))
    ELSE None

\* Lines 258-264: the ValueError raised in place of an IntegrityError e.
insert_integrity_error(e, profile_id, version) ==
    IF Mentions(e, "unique_profile_prior_version")
    THEN ValueError(<<"Prior version ", ToString(version), " already exists for profile ",
                      ToString(profile_id)>>)
    ELSE ValueError(<<"Database constraint error: ">> \o e)

\* main() and insert_prior_config up to SessionLocal(): read the file and
\* validate its structure; an exception ends the invocation with status 1.
InsertValidate ==
    /\ proc[1].pc = "idle"
    /\ \E file \in ConfigFiles :
          LET error == InsertValidationError(file)
              state == [pc |-> "insert_opened", file |-> file, before |-> profile_priors,
                        session |-> IF error = None THEN <<"open">> ELSE <<>>,
                        error |-> None, exit |-> None]
          IN  proc' = [proc EXCEPT ![1] = IF error = None THEN state ELSE Exited(state, error)]
    /\ UNCHANGED <<tables, returned>>
    /\ UNCHANGED <<routeVars, fnVars, poolVars>>

\* Lines 194-269: look the profile up, compare the parameter names, look for
\* a prior of that version, construct the row, add and commit it; on an
\* exception roll back; close the session; exit.
InsertRun ==
    /\ proc[1].pc = "insert_opened"
    /\ LET st == proc[1]
           config == st.file.config[1]
           id == config.custom_profile_id.n
           version == config.version.n
           profile == FirstById(graphhopper_custom_profiles, id)
           checked ==
               IF profile = None
               THEN [queries |-> <<"query">>,
                     error |-> Some(ValueError(<<"Custom profile with ID ", ToString(id), " not found">>))]
               ELSE IF ParameterMismatchError(profile[1], config.parameters.items) # None
               THEN [queries |-> <<"query">>,
                     error |-> ParameterMismatchError(profile[1], config.parameters.items)]
               ELSE [queries |-> <<"query", "query">>,
                     error |-> ExistingPriorError(profile_priors, id, version)]
           constructed == ConstructorError(ProfilePriorAttributes, InsertKeywords)
           prior == PriorRow(id_seq.profile_priors + 1, id, None, None, config.training_metadata,
                             version, TRUE)
           flushed == PriorFlushError(profile_priors, prior)
           failed(session, error) ==
               proc' = [proc EXCEPT ![1] =
                          Exited([st EXCEPT !.session = @ \o session \o <<"rollback", "close">>], error)]
       IN  IF checked.error # None
           THEN failed(checked.queries, checked.error) /\ UNCHANGED tables
           ELSE IF constructed # None
           THEN failed(checked.queries, constructed) /\ UNCHANGED tables
           ELSE /\ id_seq' = [id_seq EXCEPT !.profile_priors = @ + 1]
                /\ UNCHANGED <<graphhopper_custom_profiles, user_profiles, learned_parameters, schema>>
                /\ IF flushed # None
                   THEN /\ failed(checked.queries \o <<"add", "flush">>,
                                   Some(insert_integrity_error(flushed[1], id, version)))
                        /\ UNCHANGED profile_priors
                   ELSE /\ profile_priors' = profile_priors \cup {prior}
                        /\ proc' = [proc EXCEPT ![1] =
                                       Exited([st EXCEPT !.session = @ \o checked.queries
                                                            \o <<"add", "flush", "commit", "close">>], None)]
    /\ UNCHANGED returned
    /\ UNCHANGED <<routeVars, fnVars, poolVars>>

\* The --custom_profile_id arguments of --create that occur, and whether the
\* output file exists already.
GenerateProfileIds == {1, 2, 9}
\* main() in --create mode up to SessionLocal() in generate_prior_config.
GenerateStart ==
    /\ proc[1].pc = "idle"
    /\ \E custom_profile_id \in GenerateProfileIds, output_exists \in BOOLEAN :
          proc' = [proc EXCEPT ![1] =
                     [pc |-> "generate_opened", custom_profile_id |-> custom_profile_id,
                      output_exists |-> output_exists, written |-> None,
                      session |-> <<"open">>, error |-> None, exit |-> None]]
    /\ UNCHANGED <<tables, returned>>
    /\ UNCHANGED <<routeVars, fnVars, poolVars>>

\* Lines 62-116: look the profile up, take the next prior version, write the
\* template unless the output file exists; close the session in the finally
\* block, which is all the handling there is; main() exits 1 on an exception.
GenerateRun ==
    /\ proc[1].pc = "generate_opened"
    /\ LET st == proc[1]
           id == st.custom_profile_id
           profile == FirstById(graphhopper_custom_profiles, id)
           next_version == get_next_prior_version(profile_priors, id)
           config == [custom_profile_id |-> id, version |-> next_version,
                      parameters |-> {<<profile[1].parameters[i], 1>> :
                                         i \in 1..Len(profile[1].parameters)}]
           ended(session, error, written) ==
               proc' = [proc EXCEPT ![1] =
                          Exited([st EXCEPT !.session = @ \o session \o <<"close">>,
                                            !.written = written], error)]
       IN  IF profile = None
           THEN ended(<<"query">>,
                      Some(ValueError(<<"Custom profile with ID ", ToString(id), " not found">>)), None)
           ELSE IF profile[1].parameters = <<>>
           THEN ended(<<"query">>,
                      Some(ValueError(<<"Profile '", profile[1].name, "' (ID: ", ToString(id),
                                        ") has no parameters defined">>)), None)
           ELSE IF st.output_exists
           THEN ended(<<"query", "query">>,
                      Some(Exception("FileExistsError", <<"Output file already exists: ", "output">>)),
                      None)
           ELSE ended(<<"query", "query">>, None, Some(config))
    /\ UNCHANGED <<tables, returned>>
    /\ UNCHANGED <<routeVars, fnVars, poolVars>>

\* ----------------------- specification: add_prior_config.py in insert mode
\* The prior the first profile may have before the invocation.
FirstPrior == PriorRow(1, 1, {<<"a", 1>>, <<"b", 1>>}, {<<"a", 1>>, <<"b", 1>>}, None, 1, TRUE)
InitInsert ==
    /\ RouteIdle
    /\ PoolIdle
    /\ FnIdle
    /\ graphhopper_custom_profiles = TwoProfiles
    /\ profile_priors \in {{}, {FirstPrior}}
    /\ user_profiles = {}
    /\ learned_parameters = {}
    /\ id_seq = [graphhopper_custom_profiles |-> 2, profile_priors |-> Cardinality(profile_priors)]
    /\ schema = NewSchema
    /\ proc = [p \in {1} |-> [pc |-> "idle"]]
    /\ returned = None
NextInsert == InsertValidate \/ InsertRun
SpecInsert == InitInsert /\ [][NextInsert]_vars

\* ------------------------ scripts/transfer_priors_to_learned_params.py
\* A UserProfile row and a LearnedParameters row.  Their ids are uuid4 values
\* made by the inserting session: the pair of the invocation and a count.
UserProfileRow(id, user_id, profile_id, custom_name, total_ratings) ==
    [id |-> id, user_id |-> user_id, profile_id |-> profile_id, custom_name |-> custom_name,
     total_ratings |-> total_ratings]
LearnedParametersRow(id, user_profile_id, parameters, is_prior, rating_count_at_generation, convergence_metrics) ==
    [id |-> id, user_profile_id |-> user_profile_id, parameters |-> parameters, is_prior |-> is_prior,
     rating_count_at_generation |-> rating_count_at_generation,
     convergence_metrics |-> convergence_metrics]

\* A faulty variant: the table has no unique constraint.
no_unique_user_profile(rows, row) == TRUE

\* UniqueConstraint('user_id', 'profile_id', name='unique_user_profile')
unique_user_profile(rows, row) ==
    ~\E r \in rows : r.user_id = row.user_id /\ r.profile_id = row.profile_id

\* The --user_id arguments that occur, and validate_uuid on them.
TransferUsers == {"123e4567-e89b-12d3-a456-426614174000", "00000000-0000-4000-8000-000000000001", "not-a-uuid"}
validate_uuid(uuid_string) ==
    IF uuid_string = "not-a-uuid"
    THEN Some(ValueError(<<"Invalid UUID format: ", uuid_string>>))
    ELSE None

\* The profiles and priors the transfers find: two priors of the first
\* profile, one of the second.
TransferPriors ==
    {PriorRow(1, 1, {<<"a", 1>>, <<"b", 1>>}, {<<"a", 1>>, <<"b", 1>>}, None, 1, TRUE),
     PriorRow(2, 1, {<<"a", 2>>, <<"b", 2>>}, {<<"a", 1>>, <<"b", 1>>}, None, 2, TRUE),
     PriorRow(3, 2, {<<"c", 3>>}, {<<"c", 1>>}, None, 1, TRUE)}
\* The lists of --prior_id values of at most n ids drawn from ids.
PriorIdLists(ids, n) == UNION {[1..k -> ids] : k \in 1..n}

\* A flush sends the INSERT inside the open transaction: the committed rows
\* stay as they are.  A faulty variant commits the row at once.
flush_committing(rows, row) == rows \cup {row}
flush(rows, row) == rows

\* A faulty variant: no look for learned parameters marked as prior.
existing_learned_prior_unchecked(rows, user_profile_id) == None

\* Lines 153-157: the first learned-parameters row of the user profile that
\* is marked as prior, None without one.
existing_learned_prior(rows, user_profile_id) ==
    LET found == {r \in rows : r.user_profile_id = user_profile_id /\ r.is_prior}
    IN  IF found = {} THEN None ELSE Some(CHOOSE r \in found : TRUE)

\* Lines 193-198: the ValueError raised in place of an IntegrityError e.
transfer_integrity_error(e) ==
    IF Mentions(e, "unique_user_profile")
    THEN ValueError(<<"User profile constraint violation - this shouldn't happen!">>)
    ELSE ValueError(<<"Database constraint error: ">> \o e)

\* The invocations of the tool.
TransferProcs == {1, 2}

\* A faulty variant: a query does not see the rows the session flushed.
VisibleCommittedOnly(committed, own) == committed

\* The rows a session sees: the committed ones and its own flushed ones.
Visible(committed, own) == committed \cup own

\* The invocation failed inside the try block: rollback, close, exit 1.
TransferFailed(st, error) ==
    Exited([st EXCEPT !.session = @ \o <<"rollback", "close">>,
                      !.new_user_profiles = {}, !.new_learned_parameters = {}], error)

\* main() and transfer_prior_to_learned_params up to SessionLocal(), for a
\* list of prior ids drawn from lists.
TransferStartWith(p, lists) ==
    /\ proc[p].pc = "idle"
    /\ \E user_id \in TransferUsers, prior_ids \in lists :
          LET error == validate_uuid(user_id)
              state == [pc |-> "loop", user_id |-> user_id, prior_ids |-> prior_ids, i |-> 1,
                        user_profile |-> None, new_user_profiles |-> {}, new_learned_parameters |-> {},
                        created_learned_params |-> <<>>, uuids |-> 0, notices |-> <<>>,
                        order |-> Cardinality({q \in DOMAIN proc : proc[q].pc # "idle"}),
                        before |-> [user_profiles |-> user_profiles, learned_parameters |-> learned_parameters],
                        session |-> IF error = None THEN <<"open">> ELSE <<>>,
                        report |-> "", error |-> None, exit |-> None]
          IN  proc' = [proc EXCEPT ![p] = IF error = None THEN state ELSE Exited(state, error)]
    /\ UNCHANGED <<tables, returned>>
    /\ UNCHANGED <<routeVars, fnVars, poolVars>>

\* A faulty variant: an absent prior ends the invocation.
prior_not_found_fatal(st) ==
    TransferFailed([st EXCEPT !.session = Append(@, "query")],
                   Some(ValueError(<<"Prior with ID ", ToString(st.prior_ids[st.i]), " not found">>)))

\* Lines 144-146: the prior is absent: print the skip notice and continue
\* with the next id.
prior_not_found(st) ==
    [st EXCEPT !.i = @ + 1, !.notices = Append(@, "not found, skipping"),
               !.session = Append(@, "query")]

\* Lines 136-151 and 76-92: fetch the prior of the next id (an absent one is
\* skipped), then its custom profile and the user's profile row for it.
TransferLookup(p) ==
    /\ proc[p].pc = "loop"
    /\ proc[p].i <= Len(proc[p].prior_ids)
    /\ LET st == proc[p]
           prior == FirstById(profile_priors, st.prior_ids[st.i])
           custom_profile == FirstById(graphhopper_custom_profiles, prior[1].profile_id)
           found == {r \in Visible(user_profiles, st.new_user_profiles) :
                        r.user_id = st.user_id /\ r.profile_id = prior[1].profile_id}
       IN  proc' = [proc EXCEPT ![p] =
              IF prior = None
              THEN prior_not_found(st)
              ELSE IF custom_profile = None
              THEN TransferFailed([st EXCEPT !.session = @ \o <<"query", "query">>],
                                  Some(ValueError(<<"Custom profile with ID ",
                                                    ToString(prior[1].profile_id), " not found">>)))
              ELSE IF found # {}
              THEN [st EXCEPT !.pc = "learned", !.user_profile = Some(CHOOSE r \in found : TRUE),
                              !.session = @ \o <<"query", "query", "query">>]
              ELSE [st EXCEPT !.pc = "create", !.session = @ \o <<"query", "query", "query">>]]
    /\ UNCHANGED <<tables, returned>>
    /\ UNCHANGED <<routeVars, fnVars, poolVars>>

\* The user profile row the invocation is about to insert.
NewUserProfile(p) ==
    LET st == proc[p]
        prior == FirstById(profile_priors, st.prior_ids[st.i])[1]
        custom_profile == FirstById(graphhopper_custom_profiles, prior.profile_id)[1]
    IN  UserProfileRow(<<p, st.uuids + 1>>, st.user_id, prior.profile_id,
                       "Profile for " \o custom_profile.name, 0)
\* The invocation's INSERT of a user profile waits for the transaction of q.
WaitsFor(p, q) ==
    /\ proc[p].pc = "create"
    /\ proc[q].pc \in {"loop", "create", "learned"}
    /\ ~unique_user_profile(proc[q].new_user_profiles, NewUserProfile(p))

\* Lines 94-106: db.add(user_profile) and db.flush().  The INSERT waits while
\* another transaction holds an uncommitted row of the same user and profile;
\* against a committed one it raises IntegrityError.
TransferCreateUserProfile(p) ==
    /\ proc[p].pc = "create"
    /\ \A q \in DOMAIN proc \ {p} : ~WaitsFor(p, q)
    /\ LET st == proc[p]
           user_profile == NewUserProfile(p)
       IN  IF unique_user_profile(user_profiles, user_profile)
           THEN /\ proc' = [proc EXCEPT ![p] =
                              [st EXCEPT !.pc = "learned", !.user_profile = Some(user_profile),
                                         !.uuids = @ + 1,
                                         !.new_user_profiles = @ \cup {user_profile},
                                         !.session = @ \o <<"add", "flush">>]]
                /\ user_profiles' = flush(user_profiles, user_profile)
           ELSE /\ proc' = [proc EXCEPT ![p] =
                              TransferFailed([st EXCEPT !.session = @ \o <<"add", "flush">>],
                                             Some(transfer_integrity_error(
                                                    IntegrityErrorText("unique_user_profile"))))]
                /\ UNCHANGED user_profiles
    /\ UNCHANGED <<graphhopper_custom_profiles, profile_priors, learned_parameters, id_seq, returned, schema>>
    /\ UNCHANGED <<routeVars, fnVars, poolVars>>

\* Two invocations wait for each other's uncommitted user profile: the
\* database ends one of them with a deadlock error, which is no
\* IntegrityError (lines 199-201).
TransferDeadlock(p) ==
    /\ \E q \in DOMAIN proc \ {p} : WaitsFor(p, q) /\ WaitsFor(q, p)
    /\ proc' = [proc EXCEPT ![p] =
                   TransferFailed([proc[p] EXCEPT !.session = @ \o <<"add", "flush">>],
                                  Some(Exception("OperationalError",
                                                 <<"(psycopg2.errors.DeadlockDetected) deadlock detected">>)))]
    /\ UNCHANGED <<tables, returned>>
    /\ UNCHANGED <<routeVars, fnVars, poolVars>>

\* Lines 152-185: skip when the user profile has learned parameters marked
\* as prior; otherwise add the row made from the prior's means and flush.
TransferLearned(p) ==
    /\ proc[p].pc = "learned"
    /\ LET st == proc[p]
           prior_id == st.prior_ids[st.i]
           prior == FirstById(profile_priors, prior_id)[1]
           user_profile == st.user_profile[1]
           existing == existing_learned_prior(Visible(learned_parameters, st.new_learned_parameters),
                                              user_profile.id)
           learned_params ==
               LearnedParametersRow(<<p, st.uuids + 1>>, user_profile.id, prior.means, TRUE, 0,
                                    [source |-> "profile_prior", prior_id |-> prior_id,
                                     prior_version |-> prior.version,
                                     transferred_at |-> "auto_transfer"])
       IN  IF existing # None
           THEN /\ proc' = [proc EXCEPT ![p] =
                              [st EXCEPT !.pc = "loop", !.i = @ + 1, !.user_profile = None,
                                         !.notices = Append(@, "already has prior learned parameters, skipping"),
                                         !.session = Append(@, "query")]]
                /\ UNCHANGED learned_parameters
           ELSE /\ proc' = [proc EXCEPT ![p] =
                              [st EXCEPT !.pc = "loop", !.i = @ + 1, !.user_profile = None,
                                         !.uuids = @ + 1,
                                         !.new_learned_parameters = @ \cup {learned_params},
                                         !.created_learned_params = Append(@, learned_params.id),
                                         !.notices = Append(@, "created learned parameters"),
                                         !.session = @ \o <<"query", "add", "flush">>]]
                /\ learned_parameters' = flush(learned_parameters, learned_params)
    /\ UNCHANGED <<graphhopper_custom_profiles, profile_priors, user_profiles, id_seq, returned, schema>>
    /\ UNCHANGED <<routeVars, fnVars, poolVars>>

\* Lines 187-191, 202-203 and 245-254: after the last id, commit, close and
\* print the summary, or that nothing was created.
TransferCommit(p) ==
    /\ proc[p].pc = "loop"
    /\ proc[p].i > Len(proc[p].prior_ids)
    /\ LET st == proc[p]
       IN  /\ user_profiles' = user_profiles \cup st.new_user_profiles
           /\ learned_parameters' = learned_parameters \cup st.new_learned_parameters
           /\ proc' = [proc EXCEPT ![p] =
                         Exited([st EXCEPT !.session = @ \o <<"commit", "close">>,
                                           !.new_user_profiles = {}, !.new_learned_parameters = {},
                                           !.report = IF st.created_learned_params # <<>>
                                                      THEN "Summary"
                                                      ELSE "No learned parameters were created (all were skipped)"],
                                None)]
    /\ UNCHANGED <<graphhopper_custom_profiles, profile_priors, id_seq, returned, schema>>
    /\ UNCHANGED <<routeVars, fnVars, poolVars>>

\* ---------- specification: transfer invocations, one after the other
SequentialPriorIds == {1, 2, 3, 9}
TransferStartAlone(p) ==
    /\ \A q \in DOMAIN proc \ {p} : proc[q].pc \in {"idle", "done"}
    /\ TransferStartWith(p, PriorIdLists(SequentialPriorIds, MaxPriorIds))
InitTransfer ==
    /\ RouteIdle
    /\ PoolIdle
    /\ FnIdle
    /\ graphhopper_custom_profiles = TwoProfiles
    /\ profile_priors = TransferPriors
    /\ user_profiles = {}
    /\ learned_parameters = {}
    /\ id_seq = [graphhopper_custom_profiles |-> 2, profile_priors |-> 3]
    /\ schema = NewSchema
    /\ proc = [p \in TransferProcs |-> [pc |-> "idle"]]
    /\ returned = None
NextSequential ==
    \E p \in TransferProcs :
       \/ TransferStartAlone(p)
       \/ TransferLookup(p)
       \/ TransferCreateUserProfile(p)
       \/ TransferLearned(p)
       \/ TransferCommit(p)
SpecSequential == InitTransfer /\ [][NextSequential]_vars

\* ---- specification: the same, with a user profile the application made
\* A user profile of the first user for the second custom profile, without
\* learned parameters.
ApplicationUserProfile ==
    UserProfileRow(<<0, 1>>, "123e4567-e89b-12d3-a456-426614174000", 2, "My gravel profile", 0)
InitTransferExisting ==
    /\ RouteIdle
    /\ PoolIdle
    /\ FnIdle
    /\ graphhopper_custom_profiles = TwoProfiles
    /\ profile_priors = TransferPriors
    /\ user_profiles = {ApplicationUserProfile}
    /\ learned_parameters = {}
    /\ id_seq = [graphhopper_custom_profiles |-> 2, profile_priors |-> 3]
    /\ schema = NewSchema
    /\ proc = [p \in TransferProcs |-> [pc |-> "idle"]]
    /\ returned = None
SpecSequentialExisting == InitTransferExisting /\ [][NextSequential]_vars

\* ---------------- specification: two transfer invocations at the same time
ConcurrentPriorIds == {1, 3, 9}
TransferStart(p) == TransferStartWith(p, PriorIdLists(ConcurrentPriorIds, MaxPriorIds))
NextConcurrent ==
    \E p \in TransferProcs :
       \/ TransferStart(p)
       \/ TransferLookup(p)
       \/ TransferCreateUserProfile(p)
       \/ TransferDeadlock(p)
       \/ TransferLearned(p)
       \/ TransferCommit(p)
SpecConcurrent == InitTransfer /\ [][NextConcurrent]_vars

\* ------- specification: every tool that opens a session, one tool at a time
\* The scripts: add_custom_profile.py and transfer_priors_to_learned_params.py
\* with two invocations at the same time, add_prior_config.py in its two
\* modes with one.
ToolInvocations ==
    {[p \in TransferProcs |-> [pc |-> "idle", tool |-> "add_custom_profile"]],
     [p \in TransferProcs |-> [pc |-> "idle", tool |-> "transfer_priors_to_learned_params"]],
     [p \in TransferProcs |->
        [pc |-> "idle", tool |-> IF p = 1 THEN "add_prior_config --create" ELSE "not invoked"]],
     [p \in TransferProcs |->
        [pc |-> "idle", tool |-> IF p = 1 THEN "add_prior_config --insert" ELSE "not invoked"]]}
Invoked(p, tool) == proc[p].pc = "idle" /\ proc[p].tool = tool
InitSessions ==
    /\ RouteIdle
    /\ PoolIdle
    /\ FnIdle
    /\ graphhopper_custom_profiles = TwoProfiles
    /\ profile_priors = TransferPriors
    /\ user_profiles = {}
    /\ learned_parameters = {}
    /\ id_seq = [graphhopper_custom_profiles |-> 2, profile_priors |-> 3]
    /\ schema = NewSchema
    /\ proc \in ToolInvocations
    /\ returned = None
\* The start of each tool, for an invocation of that tool.
InvokeAddCustomProfile(p) == Invoked(p, "add_custom_profile") /\ RegisterValidate(p)
InvokeTransfer(p) == Invoked(p, "transfer_priors_to_learned_params") /\ TransferStart(p)
InvokeGenerate == Invoked(1, "add_prior_config --create") /\ GenerateStart
InvokeInsert == Invoked(1, "add_prior_config --insert") /\ InsertValidate
NextSessions ==
    \/ \E p \in TransferProcs :
          \/ InvokeAddCustomProfile(p)
          \/ RegisterGetNextVersion(p)
          \/ RegisterInsert(p)
          \/ RegisterCommit(p)
          \/ InvokeTransfer(p)
          \/ TransferLookup(p)
          \/ TransferCreateUserProfile(p)
          \/ TransferDeadlock(p)
          \/ TransferLearned(p)
          \/ TransferCommit(p)
    \/ InvokeGenerate
    \/ GenerateRun
    \/ InvokeInsert
    \/ InsertRun
SpecSessions == InitSessions /\ [][NextSessions]_vars

\* ----- alembic/versions/246677e8a89f_add_means_and_variances_to_profile_.py
\* During the migration a row is a function from the names of the table's
\* columns to cells; a cell is None (SQL NULL) or Some(value).  Numbers are
\* in hundredths: 100 is 1.0.
\* The 0.01 of jsonb_object_agg(key, 0.01).
DefaultVariance == 1

\* op.add_column: every row gets the column with NULL in it.
add_column(rows, name) ==
    {[c \in DOMAIN r \cup {name} |-> IF c \in DOMAIN r THEN r[c] ELSE None] : r \in rows}
\* op.drop_column
drop_column(rows, name) == {[c \in DOMAIN r \ {name} |-> r[c]] : r \in rows}
\* op.alter_column(..., nullable=False) fails on a row with NULL in the column.
not_null_violated(rows, name) == \E r \in rows : r[name] = None

\* jsonb_each(object): the set of the object's (key, value) pairs.
jsonb_each(object) == object
\* jsonb_object_agg(key, value) over the pairs: the object of the keys, and
\* NULL when there is no pair to aggregate.
jsonb_object_agg(pairs, value) ==
    IF pairs = {} THEN None ELSE Some({<<kv[1], value>> : kv \in pairs})

\* Lines 39-45: UPDATE ... SET means = parameters, variances = (SELECT ...)
\* WHERE parameters IS NOT NULL, on one row.
upgrade_update(r) ==
    IF r.parameters # None
    THEN [r EXCEPT !.means = r.parameters,
                   !.variances = jsonb_object_agg(jsonb_each(r.parameters[1]), DefaultVariance)]
    ELSE r

\* A faulty variant: the backward step copies the variances.
downgrade_update_from_variances(r) ==
    IF r.means # None THEN [r EXCEPT !.parameters = r.variances] ELSE r

\* Lines 69-73: UPDATE ... SET parameters = means WHERE means IS NOT NULL.
downgrade_update(r) ==
    IF r.means # None THEN [r EXCEPT !.parameters = r.means] ELSE r

\* The schema with a column added, dropped, or made NOT NULL.
WithColumn(sch, name) ==
    [sch EXCEPT !.profile_priors = @ \cup {Column(name, TRUE)}]
WithoutColumn(sch, name) ==
    [sch EXCEPT !.profile_priors = {c \in @ : c.name # name}]
WithNotNull(sch, name) ==
    [sch EXCEPT !.profile_priors = {IF c.name = name THEN Column(name, FALSE) ELSE c : c \in @}]

\* The parameter maps the rows hold before the migration.
DrawnParameterMaps ==
    {{}, {<<"a", 100>>}, {<<"a", 150>>, <<"b", 80>>}, {<<"b", 250>>}}
MigrationRow(id, parameters) ==
    [id |-> Some(id), version |-> Some(1), parameters |-> Some(parameters)]
MigrationTables ==
    UNION {{{MigrationRow(id, f[id]) : id \in 1..k} : f \in [1..k -> DrawnParameterMaps]} :
           k \in 0..MaxPriorRows}

\* One step of a migration command ran inside its transaction.
MigrationStep(next_pc, rows, sch) ==
    /\ proc' = [proc EXCEPT ![1].pc = next_pc]
    /\ profile_priors' = rows
    /\ schema' = sch
\* A statement failed: the transaction of the command is rolled back, the
\* table and its columns are as they were before the command, exit status 1.
MigrationFailed(text) ==
    /\ proc' = [proc EXCEPT ![1] = Exited(proc[1], Some(Exception("IntegrityError", text)))]
    /\ profile_priors' = proc[1].before.profile_priors
    /\ schema' = proc[1].before.schema
MigrationUnchanged ==
    /\ UNCHANGED <<graphhopper_custom_profiles, user_profiles, learned_parameters, id_seq, returned>>
    /\ UNCHANGED <<routeVars, fnVars, poolVars>>

\* upgrade(), lines 26-30: add the columns means and variances.
UpgradeAddColumns ==
    /\ proc[1].pc = "idle"
    /\ schema.version = OldRevision
    /\ proc' = [proc EXCEPT ![1] =
                   [pc |-> "upgrade_added", original |-> profile_priors,
                    before |-> [profile_priors |-> profile_priors, schema |-> schema],
                    error |-> None, exit |-> None]]
    /\ profile_priors' = add_column(add_column(profile_priors, "means"), "variances")
    /\ schema' = WithColumn(WithColumn(schema, "means"), "variances")
    /\ MigrationUnchanged
\* upgrade(), lines 35-45: the UPDATE.
UpgradeUpdate ==
    /\ proc[1].pc = "upgrade_added"
    /\ MigrationStep("upgrade_updated", {upgrade_update(r) : r \in profile_priors}, schema)
    /\ MigrationUnchanged
\* upgrade(), lines 49-50: both new columns NOT NULL.
UpgradeSetNotNull ==
    /\ proc[1].pc = "upgrade_updated"
    /\ IF not_null_violated(profile_priors, "means")
       THEN MigrationFailed(<<"column ", "means", " of relation profile_priors contains null values">>)
       ELSE IF not_null_violated(profile_priors, "variances")
       THEN MigrationFailed(<<"column ", "variances", " of relation profile_priors contains null values">>)
       ELSE MigrationStep("upgrade_tightened", profile_priors,
                          WithNotNull(WithNotNull(schema, "means"), "variances"))
    /\ MigrationUnchanged
\* upgrade(), line 54, and the end of the command: drop parameters, stamp
\* the revision, commit.
UpgradeDropColumn ==
    /\ proc[1].pc = "upgrade_tightened"
    /\ MigrationStep("upgraded", drop_column(profile_priors, "parameters"),
                     [WithoutColumn(schema, "parameters") EXCEPT !.version = NewRevision])
    /\ MigrationUnchanged

\* downgrade(), lines 61-62: add the column parameters.
DowngradeAddColumn ==
    /\ proc[1].pc = "upgraded"
    /\ schema.version = NewRevision
    /\ proc' = [proc EXCEPT ![1].pc = "downgrade_added",
                             ![1].before = [profile_priors |-> profile_priors, schema |-> schema]]
    /\ profile_priors' = add_column(profile_priors, "parameters")
    /\ schema' = WithColumn(schema, "parameters")
    /\ MigrationUnchanged
\* downgrade(), lines 66-73: the UPDATE.
DowngradeUpdate ==
    /\ proc[1].pc = "downgrade_added"
    /\ MigrationStep("downgrade_updated", {downgrade_update(r) : r \in profile_priors}, schema)
    /\ MigrationUnchanged
\* downgrade(), line 76: parameters NOT NULL.
DowngradeSetNotNull ==
    /\ proc[1].pc = "downgrade_updated"
    /\ IF not_null_violated(profile_priors, "parameters")
       THEN MigrationFailed(<<"column ", "parameters", " of relation profile_priors contains null values">>)
       ELSE MigrationStep("downgrade_tightened", profile_priors, WithNotNull(schema, "parameters"))
    /\ MigrationUnchanged
\* downgrade(), lines 80-81, and the end of the command: drop variances and
\* means, stamp the revision, commit.
DowngradeDropColumns ==
    /\ proc[1].pc = "downgrade_tightened"
    /\ MigrationStep("downgraded", drop_column(drop_column(profile_priors, "variances"), "means"),
                     [WithoutColumn(WithoutColumn(schema, "variances"), "means")
                        EXCEPT !.version = OldRevision])
    /\ MigrationUnchanged

\* ------------------------- specification: the migration, forward then back
InitMigration ==
    /\ RouteIdle
    /\ PoolIdle
    /\ FnIdle
    /\ graphhopper_custom_profiles = TwoProfiles
    /\ profile_priors \in MigrationTables
    /\ user_profiles = {}
    /\ learned_parameters = {}
    /\ id_seq = [graphhopper_custom_profiles |-> 2, profile_priors |-> Cardinality(profile_priors)]
    /\ schema = OldSchema
    /\ proc = [p \in {1} |-> [pc |-> "idle"]]
    /\ returned = None
NextMigration ==
    \/ UpgradeAddColumns \/ UpgradeUpdate \/ UpgradeSetNotNull \/ UpgradeDropColumn
    \/ DowngradeAddColumn \/ DowngradeUpdate \/ DowngradeSetNotNull \/ DowngradeDropColumns
SpecMigration == InitMigration /\ [][NextMigration]_vars

\* ------------------------------------- thread_pool and get_route_async
\* ThreadPoolExecutor(max_workers=10)
max_workers == 10

\* A faulty variant: a thread for every work item.
WorkerAlwaysFree(busy) == TRUE

\* The executor runs a work item when fewer than max_workers of its threads
\* are busy.
WorkerFree(busy) == Cardinality(busy) < max_workers

\* get_route awaits get_route_async: loop.run_in_executor(thread_pool,
\* execute_route_request, ...) puts the call into the executor's queue.
\* Requests are numbered in the order in which they get there.
SubmitRequest ==
    /\ submitted < MaxRequests
    /\ submitted' = submitted + 1
    /\ work_queue' = Append(work_queue, submitted + 1)
    /\ waited' = IF WorkerFree(running) THEN waited ELSE waited \cup {submitted + 1}
    /\ UNCHANGED <<running, responded>>
    /\ UNCHANGED <<routeVars, fnVars, dbVars>>

\* A free worker thread takes the oldest call from the queue and runs it.
StartRequest ==
    /\ work_queue # <<>>
    /\ WorkerFree(running)
    /\ running' = running \cup {Head(work_queue)}
    /\ work_queue' = Tail(work_queue)
    /\ UNCHANGED <<submitted, responded, waited>>
    /\ UNCHANGED <<routeVars, fnVars, dbVars>>

\* The engine call of request i returned or timed out: execute_route_request
\* returns its RouteResponse, the awaiting handler answers with it, and the
\* worker is free again.
ReturnResponse(i) ==
    /\ i \in running
    /\ running' = running \ {i}
    /\ responded' = [responded EXCEPT ![i] = @ + 1]
    /\ UNCHANGED <<submitted, work_queue, waited>>
    /\ UNCHANGED <<routeVars, fnVars, dbVars>>

\* ------------------------------ specification: concurrent route requests
InitPool == RouteIdle /\ FnIdle /\ DbIdle /\ PoolIdle
NextPool == SubmitRequest \/ StartRequest \/ \E i \in 1..MaxRequests : ReturnResponse(i)
SpecPool == InitPool /\ [][NextPool]_vars
\* A free worker does take the next call, and every engine call returns or
\* times out (requests.post is given config.timeout).
SpecPoolFair ==
    /\ SpecPool
    /\ WF_vars(StartRequest)
    /\ \A i \in 1..MaxRequests : WF_vars(ReturnResponse(i))

\* ------------------------------------------ specification: POST /api/route
Init == RouteIdle /\ FnIdle /\ DbIdle /\ PoolIdle
Next == get_route \/ execute_route_request_post \/ execute_route_request_reply
Spec == Init /\ [][Next]_vars

\* ================================================================== claims
\* A text with no characters.
EmptyText(t) == \A i \in 1..Len(t) : t[i] = ""
\* The engine call did not yield a 200 reply.
EngineFailed(r) == r.kind # "http" \/ r.status_code # 200
\* Some triple of detail_list, clamped, covers [s, e).
Covered(detail_list, s, e, n_coords) ==
    \E k \in 1..Len(detail_list) :
        s >= Clamp(detail_list[k][1], n_coords) /\ e <= Clamp(detail_list[k][2], n_coords)
\* The sum of the distances between consecutive coordinates.
RECURSIVE LegSum(_, _)
LegSum(cs, n) ==
    IF n < 2 THEN 0
    ELSE LegSum(cs, n - 1) + haversine_distance(cs[n - 1][2], cs[n - 1][1], cs[n][2], cs[n][1])

\* C1: whatever the outcome of the engine call, execute_route_request returns
\* a RouteResponse, and every response that is not a success has success=false
\* and a non-empty error text.
C1_EveryFailureCarriesAnErrorText ==
    (pc = "done" /\ httpStatus = 200)
        => /\ response # None
           /\ ~response.success
                => (response.error # None /\ ~EmptyText(response.error[1]))

\* C2: for n >= 2 coordinates and any detail map, merge_detail_segments returns
\* a non-empty list whose first segment starts at 0, whose last segment ends at
\* n-1, every segment has start_index < end_index, and each segment starts
\* where the previous one ended.
C2_SegmentsTileTheRoute ==
    (fpc = "merged" /\ Len(coordinates) >= 2)
        => /\ Len(segments) >= 1
           /\ segments[1].start_index = 0
           /\ segments[Len(segments)].end_index = Len(coordinates) - 1
           /\ \A i \in 1..Len(segments) : segments[i].start_index < segments[i].end_index
           /\ \A i \in 2..Len(segments) : segments[i].start_index = segments[i - 1].end_index

\* C2 witness: a merge over two detail names with a negative index, an index
\* beyond n and a triple with start > end, yielding several segments.
C2_Witness ==
    /\ fpc = "merged"
    /\ Len(coordinates) >= 3
    /\ DOMAIN details_data = DetailNames
    /\ \E t \in AllTriples(details_data) : t[1] < 0
    /\ \E t \in AllTriples(details_data) : t[1] > Len(coordinates) /\ t[1] > t[2]
    /\ Len(segments) >= 2

\* C3: the points of the engine payload are [[a, b], [c, d]] for a request
\* with start (lat a, lon b) and end (lat c, lon d): latitude first.
C3_PayloadPointsLatitudeFirst ==
    payload # None
        => payload.points = << <<request.start.lat, request.start.lon>>,
                               <<request.end.lat, request.end.lon>> >>

\* C4: a request carrying both a custom-profile id and a parameter map (any id,
\* any map) for which the builder returns a document is sent with
\* "ch.disable"=true and custom_model equal to that document; a request
\* carrying neither is sent with neither key.
C4_CustomModelInPayload ==
    payload # None
        => /\ (request.custom_profile_id # None /\ request.parameters # None
                    /\ builder.kind = "document")
                => (payload.ch_disable = Some(TRUE)
                        /\ payload.custom_model = Some(builder.document))
           /\ (request.custom_profile_id = None /\ request.parameters = None)
                => (payload.ch_disable = None /\ payload.custom_model = None)

\* C5: when the custom-model builder raises, the handler answers HTTP 400 with
\* the builder's message and makes no call to the engine; nothing else becomes
\* an HTTP-level error: engine failures are answered 200 with success=false.
C5_OnlyBuilderFaultsBecomeHttpErrors ==
    /\ (builderCalled /\ builder.kind = "raise")
          => /\ pc = "done"
             /\ httpStatus = 400
             /\ httpDetail = Some(<<"Custom profile error: ", builder.message>>)
             /\ posts = 0 /\ payload = None /\ reply = None
    /\ pc = "done" => httpStatus \in {200, 400}
    /\ httpStatus = 400 => (builderCalled /\ builder.kind = "raise")
    /\ (pc = "done" /\ reply # None)
          => /\ httpStatus = 200
             /\ response # None
             /\ EngineFailed(reply) => ~response.success

\* C5 witness: the builder was invoked, raised, and the answer is the 400.
C5_Witness ==
    /\ pc = "done"
    /\ builderCalled
    /\ builder.kind = "raise"
    /\ httpStatus = 400

\* C6: for every non-200 reply the response has success=false; its error is
\* the body's message whenever the body is JSON carrying one (whatever the
\* Content-Type header), and "HTTP <status>" otherwise.
C6_ErrorStatusText ==
    (pc = "done" /\ reply # None /\ reply.kind = "http" /\ reply.status_code # 200)
        => /\ ~response.success
           /\ response.error =
                IF reply.body.json = "object" /\ reply.body.message # None
                      /\ reply.body.message[1] # JsonNull
                THEN Some(<<reply.body.message[1]>>)
                ELSE Some(<<"HTTP ", StatusText(reply.status_code)>>)

\* C7: in every successful response coordinate_distances has exactly as many
\* entries as coordinates, for any number of coordinates, zero included.
C7_OneDistancePerCoordinate ==
    (pc = "done" /\ response # None /\ response.success)
        => /\ response.geometry.coordinate_distances # None
           /\ Len(response.geometry.coordinate_distances[1])
                = Len(response.geometry.coordinates)

\* C8: for n >= 1 coordinates calculate_cumulative_distances returns n entries,
\* the first 0, each the previous one plus the distance of its leg (so the
\* sequence is non-decreasing), the last the sum of all the legs.
C8_CumulativeDistances ==
    (fpc = "distances" /\ Len(coordinates) >= 1)
        => LET n == Len(coordinates)
               cd == coordinate_distances
           IN  /\ Len(cd) = n
               /\ cd[1] = 0
               /\ \A i \in 2..n :
                    /\ cd[i] = cd[i - 1] + haversine_distance(coordinates[i - 1][2], coordinates[i - 1][1], coordinates[i][2], coordinates[i][1])
                    /\ cd[i] >= cd[i - 1]
               /\ cd[n] = LegSum(coordinates, n)

\* C8 witness: three coordinates, two legs of positive length.
C8_Witness ==
    /\ fpc = "distances"
    /\ Len(coordinates) >= 3
    /\ coordinate_distances[2] > 0
    /\ coordinate_distances[3] > coordinate_distances[2]

\* C9: when elevation is requested and the path has at least one coordinate
\* (exactly one included), the elevation profile has one point per coordinate:
\* point i has coordinate_index i, the cumulative distance i, and the
\* coordinate's third value, or 0.0 when it has none, as elevation.
C9_OneElevationPointPerCoordinate ==
    (pc = "done" /\ response # None /\ response.success /\ args.include_elevation
            /\ Len(response.geometry.coordinates) >= 1)
        => /\ response.geometry.elevation_profile # None
           /\ LET profile == response.geometry.elevation_profile[1]
                  cs == reply.body.paths[1][1].points.coordinates
                  cd == response.geometry.coordinate_distances[1]
              IN  /\ Len(profile) = Len(cs)
                  /\ \A i \in 1..Len(profile) :
                        /\ profile[i].coordinate_index = i - 1
                        /\ profile[i].distance = cd[i]
                        /\ profile[i].elevation = IF Len(cs[i]) > 2 THEN cs[i][3] ELSE 0

\* C10: every segment emitted for a route request has an attribute entry for
\* every requested detail name (the request's list, or the default); a
\* requested name with no list from the engine, or no covering triple, has the
\* value "unknown".
C10_EveryRequestedDetailHasAnAttribute ==
    (pc = "done" /\ response # None /\ response.success /\ response.segments # None)
        => LET segs == response.segments[1]
               requested == args.details[1]
               dd == reply.body.paths[1][1].details[1]
               n_coords == Len(response.geometry.coordinates)
           IN  \A i \in 1..Len(segs) : \A k \in 1..Len(requested) :
                  /\ requested[k] \in DOMAIN segs[i].attributes
                  /\ (requested[k] \notin DOMAIN dd
                        \/ ~Covered(dd[requested[k]], segs[i].start_index, segs[i].end_index, n_coords))
                       => segs[i].attributes[requested[k]] = "unknown"

\* The first position of detail_list whose clamped triple covers [s, e).
FirstCovering(detail_list, s, e, n_coords) ==
    CHOOSE k \in 1..Len(detail_list) :
        /\ s >= Clamp(detail_list[k][1], n_coords) /\ e <= Clamp(detail_list[k][2], n_coords)
        /\ \A j \in 1..(k - 1) :
              ~(s >= Clamp(detail_list[j][1], n_coords) /\ e <= Clamp(detail_list[j][2], n_coords))
\* The values that stand for "no value".
AbsentValues == {JsonNull, "", "missing", "null", "undefined"}

\* C11: for every emitted segment [s, e) and every detail name of the details
\* map: when some triple of that name, its bounds clamped into [0, n-1], covers
\* [s, e), the attribute is the value of the first such triple in list order,
\* with an absent, empty, "missing", "null" or "undefined" value replaced by
\* "unknown"; when no triple covers [s, e) the attribute is "unknown".
C11_AttributeIsFirstCoveringValue ==
    fpc = "merged"
        => \A i \in 1..Len(segments), d \in DOMAIN details_data :
              LET s == segments[i].start_index
                  e == segments[i].end_index
                  n == Len(coordinates)
                  v == details_data[d][FirstCovering(details_data[d], s, e, n)][3]
              IN  /\ d \in DOMAIN segments[i].attributes
                  /\ segments[i].attributes[d] =
                        IF ~Covered(details_data[d], s, e, n) THEN "unknown"
                        ELSE IF v \in AbsentValues THEN "unknown"
                        ELSE v

\* C11 witness: a merged route with a segment that two triples cover, the
\* first with a real value and the second with another one, and a segment
\* whose first covering triple carries an absent value.
C11_Witness ==
    /\ fpc = "merged"
    /\ \E i, j \in 1..Len(segments) :
          LET l == details_data["surface"]
              n == Len(coordinates)
              si == segments[i]
              sj == segments[j]
          IN  /\ Len(l) = 2
              /\ Covered(<<l[1]>>, si.start_index, si.end_index, n)
              /\ Covered(<<l[2]>>, si.start_index, si.end_index, n)
              /\ l[1][3] = "asphalt" /\ l[2][3] # "asphalt"
              /\ si.attributes["surface"] = "asphalt"
              /\ ~Covered(<<l[1]>>, sj.start_index, sj.end_index, n)
              /\ Covered(<<l[2]>>, sj.start_index, sj.end_index, n)
              /\ l[2][3] \in AbsentValues
              /\ sj.attributes["surface"] = "unknown"

\* The value a segment shows for a triple's value v.
Shown(v) == IF v \in AbsentValues THEN "unknown" ELSE v
\* The triples of detail_list whose clamped span is not empty.
NonEmptyTriples(detail_list, n_coords) ==
    LET keep(t) == Clamp(t[1], n_coords) < Clamp(t[2], n_coords)
    IN  SelectSeq(detail_list, keep)
\* The one detail list is made of triples that cover [0, n) end to end.
ContiguousMerged ==
    /\ fpc = "merged"
    /\ DOMAIN details_data = {"surface"}
    /\ LET l == details_data["surface"]
       IN  /\ Len(l) >= 1
           /\ l[1][1] = 0
           /\ l[Len(l)][2] = Len(coordinates)
           /\ \A k \in 1..Len(l) : l[k][1] <= l[k][2]
           /\ \A k \in 2..Len(l) : l[k][1] = l[k - 1][2]
\* The sum over the first k segments of end_distance - start_distance.
RECURSIVE SpanSum(_, _)
SpanSum(segs, k) ==
    IF k = 0 THEN 0
    ELSE SpanSum(segs, k - 1) + (segs[k].end_distance - segs[k].start_distance)
\* One segment per triple of non-empty clamped span, in order and with that
\* span, the last one ending at n-1, and the spans adding up to the last
\* cumulative distance.
OneSegmentPerTriple ==
    LET n  == Len(coordinates)
        ts == NonEmptyTriples(details_data["surface"], n)
    IN  /\ Len(segments) = Len(ts)
        /\ \A j \in 1..Len(segments) :
              /\ segments[j].start_index = Clamp(ts[j][1], n)
              /\ segments[j].end_index = Clamp(ts[j][2], n)
        /\ Len(segments) >= 1 => segments[Len(segments)].end_index = n - 1
        /\ SpanSum(segments, Len(segments)) = coordinate_distances[Len(coordinate_distances)]

\* C12 as stated: for one detail list of contiguous triples from 0 to n, the
\* merge yields one segment per triple of non-empty clamped span, segment j
\* carrying the value vj of its triple, the last end index being n-1, and the
\* segments' distances add up to the total route distance.
C12_SegmentCarriesTripleValue ==
    ContiguousMerged
        => /\ OneSegmentPerTriple
           /\ \A j \in 1..Len(segments) :
                 segments[j].attributes["surface"] =
                     NonEmptyTriples(details_data["surface"], Len(coordinates))[j][3]

\* C12 amended: the same, segment j carrying the value vj of its triple with
\* an absent, empty, "missing", "null" or "undefined" value shown as
\* "unknown".
C12_SegmentCarriesShownTripleValue ==
    ContiguousMerged
        => /\ OneSegmentPerTriple
           /\ \A j \in 1..Len(segments) :
                 segments[j].attributes["surface"] =
                     Shown(NonEmptyTriples(details_data["surface"], Len(coordinates))[j][3])

\* C12 witness: five coordinates, [0,2,"asphalt"] and [2,5,"gravel"], merged
\* into [0,2) asphalt and [2,4) gravel.
C12_Witness ==
    /\ ContiguousMerged
    /\ Len(coordinates) = 5
    /\ details_data["surface"] = << <<0, 2, "asphalt">>, <<2, 5, "gravel">> >>
    /\ Len(segments) = 2
    /\ segments[1].end_index = 2 /\ segments[1].attributes["surface"] = "asphalt"
    /\ segments[2].end_index = 4 /\ segments[2].attributes["surface"] = "gravel"
    /\ segments[2].end_distance > segments[1].end_distance

\* The versions of the rows that a next-version call looks at.
VersionsLookedAt(r) ==
    IF r.fn = "get_next_version"
    THEN {x.version : x \in {y \in graphhopper_custom_profiles : y.discipline = r.arg}}
    ELSE {x.version : x \in {y \in profile_priors : y.profile_id = r.arg}}

\* C13: get_next_version (per discipline) and get_next_prior_version (per
\* profile) return 1 + the largest version among the rows of that discipline
\* or profile, whatever the gaps and the active flags, and 1 when there is no
\* such row; rows of other disciplines or profiles do not count.
C13_NextVersionIsMaxPlusOne ==
    returned # None
        => LET vs == VersionsLookedAt(returned[1])
           IN  /\ vs = {} => returned[1].value = 1
               /\ vs # {} => /\ \A v \in vs : returned[1].value > v
                              /\ returned[1].value - 1 \in vs

\* C13 witness: one discipline has only an inactive row of version 2 (version
\* 1 missing), another discipline has a row of version 5: the next is 3.
C13_Witness ==
    /\ returned # None
    /\ returned[1].fn = "get_next_version"
    /\ returned[1].arg = "gravel"
    /\ returned[1].value = 3
    /\ {r.version : r \in {x \in graphhopper_custom_profiles : x.discipline = "gravel"}} = {2}
    /\ \E r \in graphhopper_custom_profiles : r.discipline = "road" /\ r.version = 5
    /\ \A r \in graphhopper_custom_profiles : r.discipline = "gravel" => ~r.is_active

\* The invocation's INSERT met a committed row of its discipline and version.
LostVersionRace(st) ==
    /\ st.pc = "done"
    /\ Len(st.session) >= 1
    /\ st.session[Len(st.session) - 1] = "rollback"

\* C14: however concurrent invocations of register-profile for one discipline
\* interleave their reading of the largest version and their insert, no two
\* committed rows share (discipline, version); an invocation whose insert
\* violates unique_discipline_version rolls back, leaves no row, and fails
\* with the error that the profile version already exists, exit status 1.
C14_NoTwoRowsOfOneVersion ==
    /\ \A r1, r2 \in graphhopper_custom_profiles :
          (r1.discipline = r2.discipline /\ r1.version = r2.version) => r1 = r2
    /\ \A p \in DOMAIN proc :
          LostVersionRace(proc[p])
              => /\ proc[p].exit = Some(1)
                 /\ proc[p].error = Some(ValueError(<<"A profile for discipline '", proc[p].discipline,
                                                       "' version ", ToString(proc[p].version[1]),
                                                       " already exists">>))
                 /\ ~\E r \in graphhopper_custom_profiles : r.name = proc[p].name

\* C14 witness: two invocations for one discipline read the same largest
\* version; one committed its row, the other lost the race.
C14_Witness ==
    \E p, q \in DOMAIN proc :
        /\ LostVersionRace(proc[p])
        /\ proc[q].pc = "done" /\ proc[q].exit = Some(0)
        /\ proc[q].version = proc[p].version
        /\ Lower(proc[q].discipline) = Lower(proc[p].discipline)
        /\ \E r \in graphhopper_custom_profiles : r.name = proc[q].name /\ r.version = proc[p].version[1]

\* The template parses to a document with a priority key holding an array.
HasPriorityArray(template) ==
    template.json = "object" /\ template.contains_priority /\ template.priority = "array"
\* The invocation was given a template file that parses.
GivenParsedTemplate(st) ==
    st.pc # "idle" /\ st.template.exists /\ st.template.json # "invalid"

\* C15: register-profile rejects every template without a priority key or
\* with a priority that is not an array: the invocation fails with an error
\* of the validation (a ValueError when the template is a JSON object) and
\* exit status 1, before a session is opened or a row added, and no profile
\* row comes of it.
C15_TemplateWithoutPriorityArrayRejected ==
    \A p \in DOMAIN proc :
        (GivenParsedTemplate(proc[p]) /\ ~HasPriorityArray(proc[p].template))
            => /\ proc[p].pc = "done"
               /\ proc[p].exit = Some(1)
               /\ proc[p].error # None
               /\ proc[p].template.json = "object" => proc[p].error[1].type = "ValueError"
               /\ proc[p].session = <<>>
               /\ ~\E r \in graphhopper_custom_profiles : r.name = proc[p].name

\* C15 witness: a valid discipline with a template whose priority is a text,
\* and one with a template that has no priority key, both rejected while the
\* table keeps its two rows.
C15_Witness ==
    /\ graphhopper_custom_profiles = TwoProfiles
    /\ \E p, q \in DOMAIN proc :
          /\ proc[p].pc = "done" /\ proc[q].pc = "done"
          /\ proc[p].discipline = "road" /\ proc[q].discipline = "road"
          /\ proc[p].template.json = "object" /\ proc[p].template.priority = "string"
          /\ proc[p].error = Some(ValueError(<<"GraphHopper 'priority' field must be an array">>))
          /\ proc[q].template.json = "object" /\ ~proc[q].template.contains_priority
          /\ proc[q].error = Some(ValueError(<<"GraphHopper template must contain 'priority' field">>))
          /\ proc[p].exit = Some(1) /\ proc[q].exit = Some(1)

\* The names of S as the one list that holds each once in sorted order.
TheSortedList(S) ==
    CHOOSE q \in [1..Cardinality(S) -> S] :
        /\ \A i, j \in 1..Cardinality(S) : i < j => ParameterRank(q[i]) < ParameterRank(q[j])
        /\ {q[i] : i \in 1..Cardinality(S)} = S
\* The parameter names the profile of that id declares.
DeclaredBy(id) ==
    LET profile == CHOOSE r \in graphhopper_custom_profiles : r.id = id
    IN  {profile.parameters[i] : i \in 1..Len(profile.parameters)}
\* The invocation, now ended, was given a mapping with a parameters mapping
\* that names an existing profile, and the parameter names are not the
\* profile's.
NamesDiffer(st) ==
    /\ st.pc = "done"
    /\ st.file.file = "mapping"
    /\ st.file.config[1].parameters.kind = "dict"
    /\ st.file.config[1].custom_profile_id.kind = "int"
    /\ \E r \in graphhopper_custom_profiles : r.id = st.file.config[1].custom_profile_id.n
    /\ ParameterNamesOf(st.file.config[1].parameters.items)
          # DeclaredBy(st.file.config[1].custom_profile_id.n)
\* The invocation ended with status 1 and an error that names the sorted
\* missing and the sorted extra names and the profile's sorted names, and the
\* priors are those from before.
RejectedNamingTheDifference(st) ==
    LET declared == DeclaredBy(st.file.config[1].custom_profile_id.n)
        supplied == ParameterNamesOf(st.file.config[1].parameters.items)
        text == st.error[1].text
    IN  /\ st.exit = Some(1)
        /\ st.error # None
        /\ declared \ supplied # {}
              => \E i \in 1..(Len(text) - 1) :
                    text[i] = "Missing parameters: " /\ text[i + 1] = Repr(TheSortedList(declared \ supplied))
        /\ supplied \ declared # {}
              => \E i \in 1..(Len(text) - 1) :
                    text[i] = "Extra parameters: " /\ text[i + 1] = Repr(TheSortedList(supplied \ declared))
        /\ Len(text) >= 1 /\ text[Len(text)] = Repr(TheSortedList(declared))
        /\ profile_priors = st.before

\* C16 as stated: insert mode rejects every configuration whose parameter
\* names differ from the declared parameters of the profile it refers to,
\* with an error naming the sorted missing names, the sorted extra names and
\* the profile's expected names, and writes no prior row.
C16_NameMismatchRejected ==
    NamesDiffer(proc[1]) => RejectedNamingTheDifference(proc[1])

\* C16 amended: the same for every configuration that passes the validation
\* of its structure (a positive integer version, a non-empty parameters
\* mapping, every value numeric and positive).
C16_ValidConfigNameMismatchRejected ==
    (NamesDiffer(proc[1]) /\ validate_prior_config(proc[1].file.config[1]) = None)
        => RejectedNamingTheDifference(proc[1])

\* C16 witness: names {a, c} against a profile declaring {a, b}: rejected with
\* missing ['b'] and extra ['c'].
C16_Witness ==
    /\ NamesDiffer(proc[1])
    /\ proc[1].pc = "done"
    /\ ParameterNamesOf(proc[1].file.config[1].parameters.items) = {"a", "c"}
    /\ proc[1].error = Some(ValueError(<<"Missing parameters: ", "['b']", ". ", "Extra parameters: ", "['c']",
                                          ". ", "Profile '", "road_01", "' expects: ", "['a', 'b']">>))
    /\ proc[1].exit = Some(1)

\* The invocation, now ended, was given a mapping whose integer profile id and
\* integer version are those of a prior row that existed before it.
GivenExistingVersion(st) ==
    /\ st.pc = "done"
    /\ st.file.file = "mapping"
    /\ st.file.config[1].custom_profile_id.kind = "int"
    /\ st.file.config[1].version.kind = "int"
    /\ \E r \in st.before :
          /\ r.profile_id = st.file.config[1].custom_profile_id.n
          /\ r.version = st.file.config[1].version.n

\* C17: insert mode, given a configuration whose (custom_profile_id, version)
\* already exists as a prior row, fails with an error of one of its checks
\* before any row is constructed or added: the prior rows after the
\* invocation are those before it, and the exit status is 1.
C17_ExistingVersionRejectedBeforeWrite ==
    GivenExistingVersion(proc[1])
        => /\ proc[1].exit = Some(1)
           /\ proc[1].error # None
           /\ proc[1].error[1].type = "ValueError"
           /\ ~Mentions(proc[1].session, "add")
           /\ profile_priors = proc[1].before

\* C17 witness: a valid configuration with the profile's parameter names and
\* the version of the profile's existing prior, rejected by the look for an
\* existing prior.
C17_Witness ==
    /\ GivenExistingVersion(proc[1])
    /\ validate_prior_config(proc[1].file.config[1]) = None
    /\ ParameterNamesOf(proc[1].file.config[1].parameters.items) = {"a", "b"}
    /\ proc[1].error = ExistingPriorError(proc[1].before, 1, 1)
    /\ proc[1].error # None
    /\ proc[1].session = <<"open", "query", "query", "rollback", "close">>
    /\ profile_priors = {FirstPrior}

\* The invocation, now ended, was given a configuration of valid structure
\* that names an existing profile, with exactly the profile's parameter names
\* and a version the profile did not have.
GivenInsertableConfig(st) ==
    /\ st.pc = "done"
    /\ st.file.file = "mapping"
    /\ validate_prior_config(st.file.config[1]) = None
    /\ \E r \in graphhopper_custom_profiles : r.id = st.file.config[1].custom_profile_id.n
    /\ ParameterNamesOf(st.file.config[1].parameters.items)
          = DeclaredBy(st.file.config[1].custom_profile_id.n)
    /\ ~\E r \in st.before :
          /\ r.profile_id = st.file.config[1].custom_profile_id.n
          /\ r.version = st.file.config[1].version.n

\* C18: insert mode, given a configuration of valid structure that names an
\* existing profile, whose parameter names are exactly the profile's and whose
\* (profile id, version) is not used yet, commits exactly one new prior row
\* of that profile id and version, active and carrying the configured values,
\* and exits with status 0.
C18_ValidConfigInserted ==
    GivenInsertableConfig(proc[1])
        => LET config == proc[1].file.config[1]
               items == config.parameters.items
           IN  /\ proc[1].exit = Some(0)
               /\ proc[1].before \subseteq profile_priors
               /\ Cardinality(profile_priors \ proc[1].before) = 1
               /\ \A r \in profile_priors \ proc[1].before :
                     /\ r.profile_id = config.custom_profile_id.n
                     /\ r.version = config.version.n
                     /\ r.is_active
                     /\ r.means = {<<items[i][1], items[i][2].n>> : i \in 1..Len(items)}

\* The invocation ran for a user id that is a UUID.
TransferredFor(st) == st.pc = "done" /\ validate_uuid(st.user_id) = None
ExistingPriorIds == {r.id : r \in profile_priors}
ProfileOfPrior(k) == FirstById(profile_priors, k)[1].profile_id
UserProfilesOf(user_id, profile_id) ==
    {r \in user_profiles : r.user_id = user_id /\ r.profile_id = profile_id}
PriorLearnedOf(user_profile) ==
    {r \in learned_parameters : r.user_profile_id = user_profile.id /\ r.is_prior}
OneRowEach(user_id, k) ==
    /\ Cardinality(UserProfilesOf(user_id, ProfileOfPrior(k))) = 1
    /\ \A up \in UserProfilesOf(user_id, ProfileOfPrior(k)) : Cardinality(PriorLearnedOf(up)) = 1
\* The rows invocation q made for the user's profile that prior k belongs to.
RowsMadeBy(q, user_id, k) ==
    {r \in UserProfilesOf(user_id, ProfileOfPrior(k)) : r.id[1] = q}
    \cup {r \in learned_parameters :
             /\ r.id[1] = q
             /\ \E up \in UserProfilesOf(user_id, ProfileOfPrior(k)) : r.user_profile_id = up.id}
SkipNotice == "already has prior learned parameters, skipping"
NothingCreated == "No learned parameters were created (all were skipped)"
\* p and q transferred prior k for one user, q after p had ended.
TransferredTwice(p, q, k) ==
    /\ p # q
    /\ TransferredFor(proc[p]) /\ TransferredFor(proc[q])
    /\ proc[p].user_id = proc[q].user_id
    /\ proc[p].order < proc[q].order
    /\ \E i \in DOMAIN proc[p].prior_ids : proc[p].prior_ids[i] = k
    /\ \E j \in DOMAIN proc[q].prior_ids : proc[q].prior_ids[j] = k

\* C19: when an existing prior id has been transferred twice for one user,
\* by two invocations one after the other or twice in the id list of one,
\* there is exactly one user-profile row for the user and the prior's profile
\* and exactly one learned-parameters row marked as prior for it; the second
\* transfer made none of these rows, printed the skip notice for the id and,
\* when the id was all it was given, reported that nothing was created.
C19_SecondTransferCreatesNothing ==
    /\ \A p, q \in TransferProcs : \A k \in ExistingPriorIds :
          TransferredTwice(p, q, k) =>
             /\ OneRowEach(proc[q].user_id, k)
             /\ RowsMadeBy(q, proc[q].user_id, k) = {}
             /\ \A j \in DOMAIN proc[q].prior_ids :
                   proc[q].prior_ids[j] = k => proc[q].notices[j] = SkipNotice
             /\ (\A j \in DOMAIN proc[q].prior_ids : proc[q].prior_ids[j] = k) =>
                   /\ proc[q].created_learned_params = <<>>
                   /\ proc[q].report = NothingCreated
                   /\ proc[q].exit = Some(0)
    /\ \A p \in TransferProcs : \A k \in ExistingPriorIds :
          TransferredFor(proc[p]) =>
             \A i, j \in DOMAIN proc[p].prior_ids :
                (i < j /\ proc[p].prior_ids[i] = k /\ proc[p].prior_ids[j] = k) =>
                   /\ OneRowEach(proc[p].user_id, k)
                   /\ proc[p].notices[j] = SkipNotice
                   /\ Cardinality(RowsMadeBy(p, proc[p].user_id, k)) <= 2
\* Both invocations transferred prior 1 alone for one user; the first made
\* the two rows, the second reported that nothing was created.
C19_Witness ==
    /\ TransferredTwice(1, 2, 1)
    /\ proc[1].prior_ids = <<1>> /\ proc[2].prior_ids = <<1>>
    /\ proc[1].report = "Summary"
    /\ proc[2].report = NothingCreated
    /\ Cardinality(user_profiles) = 1 /\ Cardinality(learned_parameters) = 1

\* The rows of a table that invocation p made, and those that none of the
\* invocations in others made.
MadeBy(rows, p) == {r \in rows : r.id[1] = p}
NotMadeBy(rows, others) == {r \in rows : r.id[1] \notin others}
Times(log, event) == Cardinality({i \in DOMAIN log : log[i] = event})

\* C20: an invocation commits once, after its last prior id: while it runs
\* the tables hold no row it made; and when it ended with an exception the
\* tables hold no row it made, hold (rows of the other invocation apart)
\* exactly the rows they held before it, and its exit status is 1.
C20_AllOrNothing ==
    \A p \in TransferProcs :
       LET st == proc[p]
           others == TransferProcs \ {p}
       IN  /\ st.pc \in {"loop", "create", "learned"} =>
                /\ MadeBy(user_profiles, p) = {} /\ MadeBy(learned_parameters, p) = {}
                /\ Times(st.session, "commit") = 0
           /\ (st.pc = "done" /\ Times(st.session, "commit") > 0) =>
                /\ Times(st.session, "commit") = 1
                /\ st.i = Len(st.prior_ids) + 1
                /\ st.error = None
           /\ (st.pc = "done" /\ st.error # None) =>
                /\ st.exit = Some(1)
                /\ MadeBy(user_profiles, p) = {} /\ MadeBy(learned_parameters, p) = {}
                /\ NotMadeBy(user_profiles, others) = NotMadeBy(st.before.user_profiles, others)
                /\ NotMadeBy(learned_parameters, others) = NotMadeBy(st.before.learned_parameters, others)
\* An invocation made the rows for its first id and failed on its second,
\* after the other invocation had committed a user profile.
C20_Witness ==
    \E p \in TransferProcs :
       /\ proc[p].pc = "done"
       /\ proc[p].exit = Some(1)
       /\ proc[p].notices = <<"created learned parameters">>
       /\ proc[p].created_learned_params # <<>>
       /\ Times(proc[p].session, "rollback") = 1
       /\ user_profiles # {}

AbsentNotice == "not found, skipping"
\* The invocation ended and its id list held an id without a prior row.
GivenAbsentPriorId(st) ==
    /\ TransferredFor(st)
    /\ \E j \in DOMAIN st.prior_ids : st.prior_ids[j] \notin ExistingPriorIds
\* The prior ids, in the order of the list, for which the invocation made a
\* learned-parameters row.
RECURSIVE CreatedFor(_, _)
CreatedFor(st, j) ==
    IF j = 0 THEN <<>>
    ELSE IF st.notices[j] = "created learned parameters"
         THEN Append(CreatedFor(st, j - 1), st.prior_ids[j])
         ELSE CreatedFor(st, j - 1)
LearnedById(id) == CHOOSE r \in learned_parameters : r.id = id

\* C23: an invocation whose id list holds absent ids ends with status 0
\* after one notice per id in the order of the list: the skip notice for
\* exactly the absent ids, a creation or the duplicate notice for every
\* existing one; and the rows it made, in the order of their ids in the
\* list, are in the tables after its one commit.
C23_AbsentPriorIsSkipped ==
    \A p \in TransferProcs :
       LET st == proc[p]
       IN  GivenAbsentPriorId(st) =>
              /\ st.exit = Some(0)
              /\ Len(st.notices) = Len(st.prior_ids)
              /\ \A j \in DOMAIN st.prior_ids :
                    (st.notices[j] = AbsentNotice) <=> (st.prior_ids[j] \notin ExistingPriorIds)
              /\ Times(st.session, "commit") = 1
              /\ Len(st.created_learned_params) = Len(CreatedFor(st, Len(st.prior_ids)))
              /\ \A k \in DOMAIN st.created_learned_params :
                    /\ \E r \in learned_parameters : r.id = st.created_learned_params[k]
                    /\ LearnedById(st.created_learned_params[k]).convergence_metrics.prior_id
                          = CreatedFor(st, Len(st.prior_ids))[k]
                    /\ \E up \in user_profiles :
                          up.id = LearnedById(st.created_learned_params[k]).user_profile_id
\* An invocation given an absent id before an existing one made and
\* committed the rows of the existing one.
C23_Witness ==
    \E p \in TransferProcs :
       /\ GivenAbsentPriorId(proc[p])
       /\ proc[p].prior_ids = <<9, 1>>
       /\ proc[p].notices = <<AbsentNotice, "created learned parameters">>
       /\ MadeBy(learned_parameters, p) # {}
       /\ MadeBy(user_profiles, p) # {}

ConsistencyError == ValueError(<<"User profile constraint violation - this shouldn't happen!">>)
\* Both invocations were started for one user with ids of priors of one
\* custom profile in their lists.
SameUserAndProfile(p, q) ==
    /\ p # q
    /\ proc[p].pc # "idle" /\ proc[q].pc # "idle"
    /\ validate_uuid(proc[p].user_id) = None
    /\ proc[p].user_id = proc[q].user_id
    /\ \E i \in DOMAIN proc[p].prior_ids, j \in DOMAIN proc[q].prior_ids :
          /\ proc[p].prior_ids[i] \in ExistingPriorIds
          /\ proc[q].prior_ids[j] \in ExistingPriorIds
          /\ ProfileOfPrior(proc[p].prior_ids[i]) = ProfileOfPrior(proc[q].prior_ids[j])
\* The invocation's INSERT of a user profile met the committed row of the
\* other invocation: its last statement was that flush, the id it was at is
\* of a profile for which the other's row is in the table.
LostRace(p, q) ==
    /\ SameUserAndProfile(p, q)
    /\ proc[p].pc = "done"
    /\ proc[p].error # None
    /\ proc[p].error[1].type = "ValueError"
    /\ proc[p].i <= Len(proc[p].prior_ids)
    /\ proc[p].prior_ids[proc[p].i] \in ExistingPriorIds
    /\ \E r \in MadeBy(user_profiles, q) :
          r.user_id = proc[p].user_id /\ r.profile_id = ProfileOfPrior(proc[p].prior_ids[proc[p].i])

\* C24: with two invocations at the same time, the table never holds two
\* user-profile rows of one user and profile; and the invocation whose
\* INSERT met the other's committed row ended with the constraint-violation
\* error and status 1 after a rollback, none of its rows in the tables.
C24_OneUserProfilePerRace ==
    /\ \A r1, r2 \in user_profiles :
          (r1.user_id = r2.user_id /\ r1.profile_id = r2.profile_id) => r1 = r2
    /\ \A p, q \in TransferProcs :
          LostRace(p, q) =>
             /\ proc[p].error = Some(ConsistencyError)
             /\ proc[p].exit = Some(1)
             /\ Times(proc[p].session, "rollback") = 1
             /\ Times(proc[p].session, "commit") = 0
             /\ MadeBy(user_profiles, p) = {} /\ MadeBy(learned_parameters, p) = {}
\* Both invocations transferred prior 1 for one user: one committed the
\* user profile, the other lost the race.
C24_Witness ==
    \E p, q \in TransferProcs :
       /\ LostRace(p, q)
       /\ proc[p].prior_ids = <<1>> /\ proc[q].prior_ids = <<1>>
       /\ proc[q].exit = Some(0)
       /\ Cardinality(user_profiles) = 1

\* The first prior transferred for a user profile: the invocation that made
\* the row is in its id, and the prior is the first one of the row's custom
\* profile in that invocation's id list.
RECURSIVE FirstPriorOfProfile(_, _, _)
FirstPriorOfProfile(prior_ids, profile_id, j) ==
    IF prior_ids[j] \in ExistingPriorIds /\ ProfileOfPrior(prior_ids[j]) = profile_id
    THEN FirstById(profile_priors, prior_ids[j])[1]
    ELSE FirstPriorOfProfile(prior_ids, profile_id, j + 1)
FirstPriorTransferredFor(up) == FirstPriorOfProfile(proc[up.id[1]].prior_ids, up.profile_id, 1)

\* C30: between and after invocations run one after the other, every
\* user-profile row in the table has at most one learned-parameters row
\* marked as prior, and a row made by a transfer has exactly one, whose
\* parameters are the means of the first prior transferred for that user
\* profile.
C30_OnePriorRowWithFirstMeans ==
    \A up \in user_profiles :
       /\ Cardinality(PriorLearnedOf(up)) <= 1
       /\ up.id[1] \in TransferProcs =>
             /\ Cardinality(PriorLearnedOf(up)) = 1
             /\ \A r \in PriorLearnedOf(up) :
                   /\ r.parameters = FirstPriorTransferredFor(up).means
                   /\ r.convergence_metrics.prior_id = FirstPriorTransferredFor(up).id
\* One user was given prior 2 and later prior 1 of the same custom profile:
\* the one row marked as prior holds the means of prior 2.
C30_Witness ==
    /\ proc[1].pc = "done" /\ proc[2].pc = "done"
    /\ proc[1].order < proc[2].order
    /\ proc[1].user_id = proc[2].user_id
    /\ proc[1].prior_ids = <<2>>
    /\ proc[2].prior_ids = <<1, 2>>
    /\ PriorLearnedOf(ApplicationUserProfile) = {}
    /\ Cardinality(user_profiles) = 2
    /\ \A r \in learned_parameters : r.parameters = {<<"a", 2>>, <<"b", 2>>}
    /\ Cardinality(learned_parameters) = 1

ColumnNames(sch) == {c.name : c \in sch.profile_priors}
\* The row that a row of the table was before the migration.
OriginalOf(r) == CHOOSE o \in proc[1].original : o.id = r.id

\* C21: when the forward step and then the backward step have run, the
\* table has the rows it had, each with its original parameters map, and
\* neither the rows nor the table's columns have means or variances.
C21_ForwardThenBackwardRestores ==
    proc[1].pc = "downgraded" =>
       /\ {r.id : r \in profile_priors} = {o.id : o \in proc[1].original}
       /\ Cardinality(profile_priors) = Cardinality(proc[1].original)
       /\ \A r \in profile_priors :
             /\ r.parameters = OriginalOf(r).parameters
             /\ "means" \notin DOMAIN r /\ "variances" \notin DOMAIN r
       /\ "means" \notin ColumnNames(schema) /\ "variances" \notin ColumnNames(schema)
       /\ Column("parameters", FALSE) \in schema.profile_priors
\* Both steps ran on two rows with different parameter maps.
C21_Witness ==
    /\ proc[1].pc = "downgraded"
    /\ Cardinality(profile_priors) = 2
    /\ \E r1, r2 \in profile_priors : r1.parameters # r2.parameters

\* The forward step has ended, with or without an error.
ForwardStepEnded ==
    \/ proc[1].pc = "upgraded"
    \/ proc[1].pc = "done" /\ schema.version = OldRevision

\* C25: once the forward step has ended it has completed, and every row
\* has means equal to its old parameters map and variances with the keys of
\* means and 0.01 for every key, neither of them NULL.
C25_ForwardStepBackfillsEveryRow ==
    ForwardStepEnded =>
       /\ proc[1].pc = "upgraded"
       /\ proc[1].error = None
       /\ \A r \in profile_priors :
             /\ r.means # None /\ r.variances # None
             /\ r.means = OriginalOf(r).parameters
             /\ {kv[1] : kv \in r.variances[1]} = {kv[1] : kv \in r.means[1]}
             /\ \A kv \in r.variances[1] : kv[2] = DefaultVariance

\* The invocation opened a session.
SessionOpened(st) == st.pc # "idle" /\ st.session # <<>>

\* C22: an invocation that opened a session and ended has closed it, once
\* and as the last thing it did with it, and when it ended with an error the
\* close comes right after a rollback; a session is not closed while the
\* invocation runs.
C22_SessionClosedAfterRollback ==
    \A p \in DOMAIN proc :
       LET st == proc[p]
           n == Len(st.session)
       IN  SessionOpened(st) =>
              /\ st.pc # "done" => Times(st.session, "close") = 0
              /\ st.pc = "done" =>
                    /\ st.session[n] = "close"
                    /\ Times(st.session, "close") = 1
                    /\ st.error # None => st.session[n - 1] = "rollback"

\* The engine call of the request timed out or found no connection.
CallFailed == reply # None /\ reply.kind \in {"connection_error", "timeout"}

\* C26: a request issues at most one POST to the engine; when the call
\* timed out or failed to connect, that one POST is all there was and the
\* request is answered with a response of success=false.
C26_OnePostNoRetry ==
    /\ posts <= 1
    /\ CallFailed =>
          /\ posts = 1
          /\ pc = "done"
          /\ httpStatus = 200
          /\ response # None
          /\ ~response.success
\* The one POST of a request timed out.
C26_Witness ==
    /\ pc = "done"
    /\ posts = 1
    /\ reply # None /\ reply.kind = "timeout"
    /\ ~response.success

\* C28: the RouteResponse execute_route_request returned has success=true
\* exactly when its error is absent, and with success=false it has no
\* coordinates, 0 for both metrics, no segments, and the profile name that
\* was passed in.
C28_FailureResponseShape ==
    (pc = "done" /\ posts > 0) =>
       /\ response.success <=> (response.error = None)
       /\ ~response.success =>
             /\ response.geometry.coordinates = <<>>
             /\ response.metrics.distance_meters = 0
             /\ response.metrics.time_ms = 0
             /\ response.segments = None
             /\ response.profile = args.profile

\* An index brought into 0..n-1.
Into(a, n) == IF a < 0 THEN 0 ELSE IF a > n - 1 THEN n - 1 ELSE a

\* C29: for every segment [s, e) of the merge and every triple of every
\* detail list, with the triple's bounds brought into [0, n-1] to give
\* [a, b): the triple covers the segment (a <= s and e <= b) or does not
\* meet it (b <= s or e <= a); neither bound lies strictly inside it.
C29_NoTripleBoundInsideSegment ==
    fpc = "merged" =>
       \A i \in 1..Len(segments) : \A t \in AllTriples(details_data) :
          LET s == segments[i].start_index
              e == segments[i].end_index
              a == Into(t[1], Len(coordinates))
              b == Into(t[2], Len(coordinates))
          IN  /\ \/ a <= s /\ e <= b
                 \/ b <= s
                 \/ e <= a
              /\ ~(s < a /\ a < e)
              /\ ~(s < b /\ b < e)
\* A merge with a triple that covers some segments and misses others, and a
\* triple whose bounds lie beyond the route.
C29_Witness ==
    /\ fpc = "merged"
    /\ Len(segments) >= 2
    /\ \E t \in AllTriples(details_data) :
          /\ 0 < t[1] /\ t[1] < t[2] /\ t[2] <= Len(coordinates) - 1
          /\ \E i, j \in 1..Len(segments) :
                /\ t[1] <= segments[i].start_index /\ segments[i].end_index <= t[2]
                /\ segments[j].end_index <= t[1]
    /\ \E t \in AllTriples(details_data) : t[1] < 0 \/ t[2] > Len(coordinates) - 1

\* C27: never more than 10 execute_route_request calls run, no request gets
\* a second response or is dropped from the pool unanswered, and every
\* request handed to the pool, one that had to wait for a worker included,
\* eventually has exactly one response: whenever a request is unanswered, a
\* moment follows at which all requests handed in until then, that one among
\* them, have their response.
C27_TenWorkersEveryRequestAnswered ==
    /\ [](/\ Cardinality(running) <= 10
          /\ \A i \in 1..submitted :
                /\ responded[i] <= 1
                /\ responded[i] = 0 <=>
                      (i \in running \/ \E k \in 1..Len(work_queue) : work_queue[k] = i))
    /\ (\E i \in 1..submitted : responded[i] = 0)
          ~> (\A i \in 1..submitted : responded[i] = 1)
\* A request that was submitted while 10 calls were running has its response.
C27_Witness ==
    \E i \in waited :
       /\ responded[i] = 1
       /\ Cardinality(running) = 0
       /\ \A j \in 1..submitted : responded[j] = 1
====
